---- MODULE Spec2Model ----
(***************************************************************************)
(* A model of clangaroo (mcp_clangd): the daemon Backend's single-flight   *)
(* table and LSP write lock, the per-connection MCP request handling of    *)
(* the monolithic server and of the daemon's client session, the clangd    *)
(* process manager and the daemon bootstrap.                               *)
(*                                                                         *)
(* Each subsystem has its own variables and its own specification; the     *)
(* actions of one subsystem leave the variables of the others unchanged.   *)
(* asyncio is modelled at the granularity of its suspension points: the    *)
(* code between two awaits that really suspend is one atomic step.         *)
(***************************************************************************)
EXTENDS Integers, Sequences, FiniteSets, TLC

(***************************************************************************)
(* Bounds of the model.                                                    *)
(***************************************************************************)
NumCalls == 4
NumKeys == 2
NumSessions == 2
NumMonitors == 2
NumAttempts == 3
NumConns == 2
NumCallers == 2
MaxRequests == 3
MaxMsgs == 2
MaxBody == 2
NumNodes == 3
MaxDepth == 3
MaxPolls == 2
NumDocs == 2
MaxLines == 2
MaxEofReads == 2
NumSignals == 3
NumCacheKeys == 2
ttl == 2
MaxTime == 4
MaxPipe == 2
MaxNotifications == 4
MaxReplies == 2
MaxGateRequests == 3

Calls == 1..NumCalls
Keys == 1..NumKeys
Sessions == 1..NumSessions
Monitors == 1..NumMonitors
Attempts == 1..NumAttempts
Conns == 1..NumConns
Callers == 1..NumCallers
\* the task that runs LSPClient.start() and later LSPClient.stop()
Owner == NumMonitors + 1
MgrTasks == 1..(NumMonitors + 1)

\* ClangdManager.max_restarts
max_restarts == 3

VARIABLES
    \* ---- Backend.get_or_compute (backend.py) and the tool call around it
    pc,                 \* position of each call inside get_or_compute
    key,                \* cache_key of each call (0: not called yet)
    awaiting,           \* the call whose future this call awaits (0: none)
    future,             \* state of the future each call created
    computation_cache,  \* Backend._computation_cache: key -> owner of the future (0: absent)
    cache_lock,         \* Backend._cache_lock: [holder, waiters]
    outcome,            \* how get_or_compute ended for each call
    response,           \* what the session wrote for the tools/call request
    executions,         \* per key: number of times compute_func was started
    raised,             \* per key: number of executions that raised
    done_before         \* per call: the calls that had returned when it was made

sfvars == <<pc, key, awaiting, future, computation_cache, cache_lock, outcome,
            response, executions, raised, done_before>>

(***************************************************************************)
(* ClangdManager (clangd_manager.py) and the LSP writes of the daemon's    *)
(* sessions (session.py, backend.py, lsp_client.py)                        *)
(***************************************************************************)
VARIABLES
    mpc,                \* position of the owner task and of each health monitor task
    process,            \* ClangdManager.process: [state, restart_count]
    lock,               \* ClangdManager.lock: [holder, waiters]
    health_task,        \* ClangdManager._health_task (0: None)
    shutdown_event,     \* ClangdManager._shutdown_event
    restart_count,      \* the local restart_count of each task inside restart()
    spawned,            \* number of clangd processes created so far
    fatal,              \* "max restart attempts exceeded" has been raised
    spc,                \* position of each session's tool call on the LSP path
    lsp_write_lock      \* Backend._lsp_write_lock: [holder, waiters]

clvars == <<mpc, process, lock, health_task, shutdown_event, restart_count,
            spawned, fatal, spc, lsp_write_lock>>

(***************************************************************************)
(* One MCP connection: the monolithic server's message loop (server.py)    *)
(* or a daemon ClientSession (session.py)                                  *)
(***************************************************************************)
VARIABLES
    mode,               \* "server" (server.py) or "session" (session.py)
    cwd,                \* the directory the serving process runs in
    files,              \* the files that exist, as [dir, name]
    initialized,        \* per connection: MCPClangdServer.initialized / ClientSession.initialized
    is_running,         \* per connection: its loop is still reading requests
    init_handled,       \* per connection: an initialize request (params an object) has been handled on it
    conn,               \* the connection that handled the last request (0: none yet)
    request,            \* the request handled last
    reply,              \* what was written for it: [kind, code, id]
    stage,              \* how far its handling went: "none", "validated", "executed"
    lsp_sent            \* the LSP requests sent while handling it

mcpvars == <<mode, cwd, files, initialized, is_running, init_handled, conn,
             request, reply, stage, lsp_sent>>

(***************************************************************************)
(* Daemon bootstrap: run_daemon_entrypoint (__main__.py) and               *)
(* ClangarooDaemon.start (daemon.py)                                       *)
(***************************************************************************)
VARIABLES
    apc,                \* position of each startup attempt (the invoked process)
    cpc,                \* position of the child each attempt forked
    fd_inode,           \* the lock file inode each attempt's lock_fd is open on (0: none)
    lock_inode,         \* the inode lock_path names now (0: no such file)
    flock_owner,        \* per inode: the attempt whose open file description holds the flock
    socket              \* socket_path: [exists, listener]

bootvars == <<apc, cpc, fd_inode, lock_inode, flock_owner, socket>>

(***************************************************************************)
(* LSPClient requests and responses (lsp_client.py)                        *)
(***************************************************************************)
VARIABLES
    request_counter,    \* LSPClient.request_counter
    pending_requests,   \* LSPClient.pending_requests: entries [id, caller]
    caller_pc,          \* per caller of request(): "idle", "waiting", "done"
    caller_id,          \* per caller: the id of its current request
    caller_result,      \* per caller: how its last request ended, <<kind, id of the response>>
    sent_ids,           \* the ids of the requests written to clangd, in order
    wire,               \* responses clangd has written and the reader has not handled
    answered,           \* ids clangd has responded to
    ignored             \* ids of the responses _handle_response dropped

lspvars == <<request_counter, pending_requests, caller_pc, caller_id,
             caller_result, sent_ids, wire, answered, ignored>>

(***************************************************************************)
(* LSP framing: LSPClient._send_message and the loop of                    *)
(* LSPClient._read_messages (lsp_client.py)                                *)
(***************************************************************************)
VARIABLES
    messages,           \* the JSON texts that were encoded, in order
    stream,             \* the encoded bytes the reader has not read yet
    buffer,             \* _read_messages' buffer
    dispatched,         \* the JSON texts handed to _handle_message, in order
    split_in_header,    \* some read ended inside a header
    split_in_body       \* some read ended inside a body

frvars == <<messages, stream, buffer, dispatched, split_in_header, split_in_body>>

(***************************************************************************)
(* Recursive call hierarchy: _get_recursive_incoming_calls and             *)
(* _get_recursive_outgoing_calls (lsp_methods.py)                          *)
(***************************************************************************)
VARIABLES
    tr_pc,                  \* "idle", "level", "item", "sort", "done"
    max_depth,
    items,                  \* argument of _get_calls_at_depth
    current_depth,          \* argument of _get_calls_at_depth
    item_index,             \* position of the for loop over items
    items_to_recurse,
    all_calls,
    visited,
    hierarchy_requests,     \* the keys callHierarchy/... was requested for
    skipped,                \* an item was skipped as already visited
    tr_result               \* the returned list

trvars == <<tr_pc, max_depth, items, current_depth, item_index, items_to_recurse, all_calls,
            visited, hierarchy_requests, skipped, tr_result>>

(***************************************************************************)
(* The stdio proxy: StdioProxy (proxy.py)                                  *)
(***************************************************************************)
VARIABLES
    px_pc,          \* where StdioProxy.run is
    socket_active,  \* a daemon listens on the project's socket
    launcher,       \* the process started by _ensure_daemon
    parent_exited,  \* local of _ensure_daemon
    polls,          \* loop variable i of _ensure_daemon
    stdin_eof,      \* the proxy's stdin has reached end of file
    stdin_task,     \* the task running _forward_stdin
    stdout_task,    \* the task running _forward_stdout
    connection,     \* the connection to the daemon
    conn_exc,       \* the exception the connection was lost with
    exit_code       \* -1 while the proxy runs

pxvars == <<px_pc, socket_active, launcher, parent_exited, polls, stdin_eof,
            stdin_task, stdout_task, connection, conn_exc, exit_code>>

(***************************************************************************)
(* The monolithic server's loop: MCPClangdServer.run (server.py)           *)
(***************************************************************************)
VARIABLES
    sv_pc,              \* "loop", "shutdown", "stopped"
    sv_pipe,            \* the lines written to stdin and not read yet
    sv_stdin_closed,    \* the client has closed stdin
    sv_stdout_ok,       \* writes to stdout succeed
    open_documents,     \* documents open in clangd
    lsp_started,        \* the LSP client and clangd run
    eof_reads           \* reads of stdin that met end of input

svvars == <<sv_pc, sv_pipe, sv_stdin_closed, sv_stdout_ok, open_documents,
            lsp_started, eof_reads>>

(***************************************************************************)
(* Shutdown of the daemon: ClangarooDaemon.shutdown (daemon.py)            *)
(***************************************************************************)
VARIABLES
    sd_pc,                  \* where each task running shutdown() is
    daemon_shutdown_event,  \* ClangarooDaemon._shutdown_event
    daemon_server,          \* "listening" or "closed"
    daemon_sessions,        \* ClangarooDaemon._sessions: "open" or "closed"
    backend_shutdowns,      \* calls of Backend.shutdown
    socket_file,            \* the socket file exists
    socket_unlinks          \* removals of the socket file

dmvars == <<sd_pc, daemon_shutdown_event, daemon_server, daemon_sessions,
            backend_shutdowns, socket_file, socket_unlinks>>

(***************************************************************************)
(* The response cache: CacheManager (cache.py)                             *)
(***************************************************************************)
VARIABLES
    cache_conn,         \* CacheManager.conn: "uninit", "open" or "none"
    cache_table,        \* the timestamp of each key's row, NoRow without one
    cache_now,          \* int(time.time())
    cache_error_seen,   \* a database error was raised inside an operation
    cache_last          \* the last operation: what it saw and returned

cavars == <<cache_conn, cache_table, cache_now, cache_error_seen, cache_last>>

(***************************************************************************)
(* The cache key: CacheManager.make_key (cache.py)                         *)
(***************************************************************************)
VARIABLES
    key_args,           \* the method and parameters of two calls
    key_out             \* the key each call returned, <<>> before it

kyvars == <<key_args, key_out>>

(***************************************************************************)
(* Optional AI augmentation of hover and call hierarchy (lsp_methods.py)   *)
(***************************************************************************)
VARIABLES
    ai_tool,            \* "hover" or "calls": the tool being served
    ai_base,            \* what clangd's answer was turned into
    ai_pc,              \* the position inside the augmentation
    ai_context,         \* context_data: "unset", "value" or "nothing"
    ai_outcomes,        \* what the AI objects did in this call, in order
    ai_result           \* what the tool returned

aivars == <<ai_tool, ai_base, ai_pc, ai_context, ai_outcomes, ai_result>>

(***************************************************************************)
(* cpp_search_symbols in a session: get_or_compute inside get_or_compute   *)
(* (session.py)                                                            *)
(***************************************************************************)
VARIABLES
    parent              \* per call: the call whose compute_func made it (0: a tool call)

ssvars == <<parent>>

(***************************************************************************)
(* Indexing progress: LSPClient._handle_progress_notification and          *)
(* LSPClient.wait_for_indexing (lsp_client.py)                             *)
(***************************************************************************)
VARIABLES
    is_indexing,          \* indexing_status.is_indexing
    progress_percentage,  \* indexing_status.progress_percentage (0: None)
    indexing_complete,    \* the asyncio.Event indexing_complete
    wait_pc,              \* wait_for_indexing: "idle", "waiting", "true", "false"
    ix_progress,          \* clangd's progress: "none", or how its begin was taken
    ix_last,              \* the $/progress notification handled last
    ix_ended              \* an examined end of an accepted progress came after the call

ixvars == <<is_indexing, progress_percentage, indexing_complete, wait_pc,
            ix_progress, ix_last, ix_ended>>

(***************************************************************************)
(* Stopping the LSP client: LSPClient.stop and the read loop               *)
(* (lsp_client.py)                                                         *)
(***************************************************************************)
VARIABLES
    ls_pc,              \* position of the task in stop(); "running" before it
    ls_initialized,     \* LSPClient.initialized
    ls_event,           \* LSPClient._shutdown_event
    ls_reader,          \* the reader task: "reading", "exited", "cancelled"
    ls_pipe,            \* what clangd wrote to stdout and nobody has read
    ls_handling,        \* messages given to _handle_message tasks not yet run
    ls_future,          \* the future of the shutdown request
    ls_sent             \* what clangd was sent, and "terminate" for its end

lsvars == <<ls_pc, ls_initialized, ls_event, ls_reader, ls_pipe, ls_handling,
            ls_future, ls_sent>>

(***************************************************************************)
(* Documents opened in clangd: DocumentManager (lsp_methods.py) and the    *)
(* LSPMethods objects that own one (backend.py, server.py, session.py)     *)
(***************************************************************************)
VARIABLES
    backend_documents,  \* open_documents of the LSPMethods made at start
    did_sent            \* didOpen and didClose notifications sent to clangd

dovars == <<backend_documents, did_sent>>

(***************************************************************************)
(* The request loop of a daemon ClientSession (session.py)                 *)
(***************************************************************************)
VARIABLES
    sn_running,         \* the loop of ClientSession.run has not ended
    sn_pipe,            \* lines the client wrote and the session has not read
    sn_client_closed,   \* the client closed its end of the connection
    sn_replies          \* the responses the session wrote

snvars == <<sn_running, sn_pipe, sn_client_closed, sn_replies>>

(***************************************************************************)
(* The readiness of the Backend: Backend.start and its startup event       *)
(* (backend.py), and when the daemon accepts sessions (daemon.py)          *)
(***************************************************************************)
VARIABLES
    be_pc,              \* Backend.start: "new", "clangd", "setup", "started", "failed"
    startup_complete,   \* the asyncio.Event Backend._startup_complete
    gt_listening,       \* the daemon's unix server accepts connections
    gt_session,         \* per session: "none", "connected", "closed"
    gt_sent             \* LSP requests sent to clangd: [by, method, ready]

gtvars == <<be_pc, startup_complete, gt_listening, gt_session, gt_sent>>

vars == <<sfvars, clvars, mcpvars, bootvars, lspvars, frvars, trvars, pxvars, svvars, dmvars, cavars, kyvars, aivars, ssvars, ixvars, lsvars, dovars, snvars, gtvars>>

\* what the actions of one subsystem leave alone
SfFrame == UNCHANGED <<clvars, mcpvars, bootvars, lspvars, frvars, trvars, pxvars, svvars, dmvars, cavars, kyvars, aivars, ssvars, ixvars, lsvars, dovars, snvars, gtvars>>
ClFrame == UNCHANGED <<sfvars, mcpvars, bootvars, lspvars, frvars, trvars, pxvars, svvars, dmvars, cavars, kyvars, aivars, ssvars, ixvars, lsvars, dovars, snvars, gtvars>>
McpFrame == UNCHANGED <<sfvars, clvars, bootvars, lspvars, frvars, trvars, pxvars, svvars, dmvars, cavars, kyvars, aivars, ssvars, ixvars, lsvars, dovars, snvars, gtvars>>
BootFrame == UNCHANGED <<sfvars, clvars, mcpvars, lspvars, frvars, trvars, pxvars, svvars, dmvars, cavars, kyvars, aivars, ssvars, ixvars, lsvars, dovars, snvars, gtvars>>
LspFrame == UNCHANGED <<sfvars, clvars, mcpvars, bootvars, frvars, trvars, pxvars, svvars, dmvars, cavars, kyvars, aivars, ssvars, ixvars, lsvars, dovars, snvars, gtvars>>
FrFrame == UNCHANGED <<sfvars, clvars, mcpvars, bootvars, lspvars, trvars, pxvars, svvars, dmvars, cavars, kyvars, aivars, ssvars, ixvars, lsvars, dovars, snvars, gtvars>>
TrFrame == UNCHANGED <<sfvars, clvars, mcpvars, bootvars, lspvars, frvars, pxvars, svvars, dmvars, cavars, kyvars, aivars, ssvars, ixvars, lsvars, dovars, snvars, gtvars>>
PxFrame == UNCHANGED <<sfvars, clvars, mcpvars, bootvars, lspvars, frvars, trvars, svvars, dmvars, cavars, kyvars, aivars, ssvars, ixvars, lsvars, dovars, snvars, gtvars>>
SvFrame == UNCHANGED <<sfvars, clvars, mcpvars, bootvars, lspvars, frvars, trvars, pxvars, dmvars, cavars, kyvars, aivars, ssvars, ixvars, lsvars, dovars, snvars, gtvars>>
DmFrame == UNCHANGED <<sfvars, clvars, mcpvars, bootvars, lspvars, frvars, trvars, pxvars, svvars, cavars, kyvars, aivars, ssvars, ixvars, lsvars, dovars, snvars, gtvars>>
CaFrame == UNCHANGED <<sfvars, clvars, mcpvars, bootvars, lspvars, frvars, trvars, pxvars, svvars, dmvars, kyvars, aivars, ssvars, ixvars, lsvars, dovars, snvars, gtvars>>
KyFrame == UNCHANGED <<sfvars, clvars, mcpvars, bootvars, lspvars, frvars, trvars, pxvars, svvars, dmvars, cavars, aivars, ssvars, ixvars, lsvars, dovars, snvars, gtvars>>
AiFrame == UNCHANGED <<sfvars, clvars, mcpvars, bootvars, lspvars, frvars, trvars, pxvars, svvars, dmvars, cavars, kyvars, ssvars, ixvars, lsvars, dovars, snvars, gtvars>>
\* a nested call changes the calls and their parents
SsFrame == UNCHANGED <<clvars, mcpvars, bootvars, lspvars, frvars, trvars, pxvars, svvars, dmvars, cavars, kyvars, aivars, ixvars, lsvars, dovars, snvars, gtvars>>
IxFrame == UNCHANGED <<sfvars, clvars, mcpvars, bootvars, lspvars, frvars, trvars, pxvars, svvars, dmvars, cavars, kyvars, aivars, ssvars, lsvars, dovars, snvars, gtvars>>
LsFrame == UNCHANGED <<sfvars, clvars, mcpvars, bootvars, lspvars, frvars, trvars, pxvars, svvars, dmvars, cavars, kyvars, aivars, ssvars, ixvars, dovars, snvars, gtvars>>
DoFrame == UNCHANGED <<sfvars, clvars, mcpvars, bootvars, lspvars, frvars, trvars, pxvars, svvars, dmvars, cavars, kyvars, aivars, ssvars, ixvars, lsvars, snvars, gtvars>>
SnFrame == UNCHANGED <<sfvars, clvars, mcpvars, bootvars, lspvars, frvars, trvars, pxvars, svvars, dmvars, cavars, kyvars, aivars, ssvars, ixvars, lsvars, dovars, gtvars>>
GtFrame == UNCHANGED <<sfvars, clvars, mcpvars, bootvars, lspvars, frvars, trvars, pxvars, svvars, dmvars, cavars, kyvars, aivars, ssvars, ixvars, lsvars, dovars, snvars>>

(***************************************************************************)
(* asyncio.Lock.  acquire() takes the lock without suspending when it is   *)
(* free and nobody waits; otherwise the caller queues in FIFO order.       *)
(* release() wakes the first waiter, and since acquire() refuses the fast  *)
(* path while a waiter exists, the lock is in effect handed to that        *)
(* waiter: holder = t while pc[t] is a waiting position means "woken, not  *)
(* yet resumed".                                                           *)
(***************************************************************************)
FreeLock == [holder |-> 0, waiters |-> <<>>]

Release(lk) ==
    IF lk.waiters = <<>> THEN FreeLock
    ELSE [holder |-> Head(lk.waiters), waiters |-> Tail(lk.waiters)]

Enqueue(lk, t) == [lk EXCEPT !.waiters = Append(@, t)]

Without(seq, t) == SelectSeq(seq, LAMBDA x : x # t)

(***************************************************************************)
(* Backend.get_or_compute                                                  *)
(***************************************************************************)
SfInit ==
    /\ pc = [t \in Calls |-> "idle"]
    /\ key = [t \in Calls |-> 0]
    /\ awaiting = [t \in Calls |-> 0]
    /\ future = [t \in Calls |-> "none"]
    /\ computation_cache = [k \in Keys |-> 0]
    /\ cache_lock = FreeLock
    /\ outcome = [t \in Calls |-> <<"none", 0>>]
    /\ response = [t \in Calls |-> "none"]
    /\ executions = [k \in Keys |-> 0]
    /\ raised = [k \in Keys |-> 0]
    /\ done_before = [t \in Calls |-> {}]

\* `cache_key in self._computation_cache` under the first lock (line 178)
InCacheFirst(k) == computation_cache[k] # 0

\* the double-check under the second lock (line 185)
InCacheSecond_skipped(k) == FALSE
InCacheSecond(k) == computation_cache[k] # 0

\* `del self._computation_cache[cache_key]` (line 197)
Evict_forgotten(tbl, k) == tbl
Evict(tbl, k) == [tbl EXCEPT ![k] = 0]

\* lines 191-192: the table after `future.set_result(result)`; the try
\* block has no else or finally that touches it
AfterSuccess_evicted(tbl, k) == [tbl EXCEPT ![k] = 0]
AfterSuccess(tbl, k) == tbl

\* what `await fut` gives for a future that is done
FutureOutcome(o) ==
    CASE future[o] = "result" -> <<"value", o>>
      [] future[o] = "exception" -> <<"error", o>>
      [] future[o] = "cancelled" -> <<"cancelled", o>>

\* ClientSession._handle_tool_call's except clauses, then _handle_request's
\* and run's: a value is a result, an Exception or a TimeoutError is an
\* error object, and a CancelledError (a BaseException) passes every
\* `except Exception` up to the end of the session task: nothing is written.
ResponseOf(out) ==
    CASE out[1] = "value" -> "result"
      [] out[1] \in {"error", "invalid_state", "timeout"} -> "error"
      [] out[1] = "cancelled" -> "none"

Return(t, out) ==
    /\ pc' = [pc EXCEPT ![t] = "done"]
    /\ outcome' = [outcome EXCEPT ![t] = out]
    /\ response' = [response EXCEPT ![t] = ResponseOf(out)]

\* `return await self._computation_cache[cache_key]`, inside `async with
\* self._cache_lock` (lines 179 and 186): t holds the lock lk.
AwaitEntry(t, k, lk) ==
    LET o == computation_cache[k] IN
    /\ awaiting' = [awaiting EXCEPT ![t] = o]
    /\ IF future[o] = "pending"
         THEN /\ pc' = [pc EXCEPT ![t] = "await_future"]
              /\ cache_lock' = lk
              /\ UNCHANGED <<outcome, response>>
         ELSE /\ Return(t, FutureOutcome(o))
              /\ cache_lock' = Release(lk)
    /\ UNCHANGED <<computation_cache, executions, raised>>

\* lines 187-191: install the future, leave the lock, start compute_func
Install(t, k, lk) ==
    /\ computation_cache' = [computation_cache EXCEPT ![k] = t]
    /\ cache_lock' = Release(lk)
    /\ pc' = [pc EXCEPT ![t] = "computing"]
    /\ executions' = [executions EXCEPT ![k] = @ + 1]
    /\ UNCHANGED <<awaiting, outcome, response, raised>>

\* lines 183-187: the second `async with`, t holding lk
SecondCheck(t, k, lk) ==
    IF InCacheSecond(k) THEN AwaitEntry(t, k, lk) ELSE Install(t, k, lk)

\* lines 177-183: the first `async with`, t holding lk; on a miss the lock
\* is released, the future created and the lock acquired again
FirstCheck(t, k, lk) ==
    IF InCacheFirst(k)
      THEN AwaitEntry(t, k, lk) /\ UNCHANGED future
      ELSE /\ future' = [future EXCEPT ![t] = "pending"]
           /\ LET lk1 == Release(lk) IN
              IF lk1.holder = 0
                THEN SecondCheck(t, k, [lk1 EXCEPT !.holder = t])
                ELSE /\ cache_lock' = Enqueue(lk1, t)
                     /\ pc' = [pc EXCEPT ![t] = "wait2"]
                     /\ UNCHANGED <<awaiting, computation_cache, outcome,
                                    response, executions, raised>>

\* lines 177-178: get_or_compute(cache_key, compute_func) is entered
Enter(t, k) ==
    /\ key' = [key EXCEPT ![t] = k]
    /\ done_before' = [done_before EXCEPT ![t] = {u \in Calls : pc[u] = "done"}]
    /\ IF cache_lock.holder = 0
         THEN FirstCheck(t, k, [cache_lock EXCEPT !.holder = t])
         ELSE /\ cache_lock' = Enqueue(cache_lock, t)
              /\ pc' = [pc EXCEPT ![t] = "wait1"]
              /\ UNCHANGED <<awaiting, future, computation_cache, outcome,
                             response, executions, raised>>

\* a session's tool call reaches get_or_compute(cache_key, compute_func)
Call(t, k) ==
    /\ SfFrame
    /\ pc[t] = "idle"
    /\ IF t = 1 THEN TRUE ELSE pc[t - 1] # "idle"
    /\ Enter(t, k)

\* the first acquire() returns for a call that had to queue
Resume1(t) ==
    /\ SfFrame
    /\ pc[t] = "wait1"
    /\ cache_lock.holder = t
    /\ FirstCheck(t, key[t], cache_lock)
    /\ UNCHANGED <<key, done_before>>

\* the second acquire() returns for a call that had to queue
Resume2(t) ==
    /\ SfFrame
    /\ pc[t] = "wait2"
    /\ cache_lock.holder = t
    /\ SecondCheck(t, key[t], cache_lock)
    /\ UNCHANGED <<key, done_before, future>>

\* the awaited future is done: the waiter resumes, leaves the lock, returns
FutureResume(t) ==
    /\ SfFrame
    /\ pc[t] = "await_future"
    /\ future[awaiting[t]] # "pending"
    /\ Return(t, FutureOutcome(awaiting[t]))
    /\ cache_lock' = Release(cache_lock)
    /\ UNCHANGED <<key, done_before, awaiting, future, computation_cache,
                   executions, raised>>

\* lines 191-192 and 199: compute_func returns.  set_result on a future
\* that a cancelled waiter has cancelled raises InvalidStateError, which the
\* `except Exception` catches and whose set_exception raises it again.
ComputeReturn(t) ==
    /\ SfFrame
    /\ pc[t] = "computing"
    /\ IF future[t] = "pending"
         THEN /\ future' = [future EXCEPT ![t] = "result"]
              /\ computation_cache' = AfterSuccess(computation_cache, key[t])
              /\ Return(t, <<"value", t>>)
         ELSE /\ Return(t, <<"invalid_state", t>>)
              /\ UNCHANGED <<future, computation_cache>>
    /\ UNCHANGED <<key, done_before, awaiting, cache_lock, executions, raised>>

\* lines 193-197: compute_func raises; the future gets the exception and
\* the entry is deleted under the lock
ComputeRaise(t) ==
    /\ SfFrame
    /\ pc[t] = "computing"
    /\ raised' = [raised EXCEPT ![key[t]] = @ + 1]
    /\ IF future[t] # "pending"
         THEN /\ Return(t, <<"invalid_state", t>>)
              /\ UNCHANGED <<future, computation_cache, cache_lock>>
         ELSE /\ future' = [future EXCEPT ![t] = "exception"]
              /\ IF cache_lock.holder = 0
                   THEN /\ computation_cache' = Evict(computation_cache, key[t])
                        /\ Return(t, <<"error", t>>)
                        /\ UNCHANGED cache_lock
                   ELSE /\ cache_lock' = Enqueue(cache_lock, t)
                        /\ pc' = [pc EXCEPT ![t] = "wait3"]
                        /\ UNCHANGED <<computation_cache, outcome, response>>
    /\ UNCHANGED <<key, done_before, awaiting, executions>>

\* the acquire() of line 196 returns: delete the entry, `return await future`
Resume3(t) ==
    /\ SfFrame
    /\ pc[t] = "wait3"
    /\ cache_lock.holder = t
    /\ computation_cache' = Evict(computation_cache, key[t])
    /\ cache_lock' = Release(cache_lock)
    /\ Return(t, <<"error", t>>)
    /\ UNCHANGED <<key, done_before, awaiting, future, executions, raised>>

SfNext ==
    \/ \E t \in Calls, k \in Keys : Call(t, k)
    \/ \E t \in Calls : Resume1(t)
    \/ \E t \in Calls : Resume2(t)
    \/ \E t \in Calls : FutureResume(t)
    \/ \E t \in Calls : ComputeReturn(t)
    \/ \E t \in Calls : ComputeRaise(t)
    \/ \E t \in Calls : Resume3(t)

\* session.py lines 357-360 and 376-385: asyncio.wait_for cancels the tool
\* task at its deadline and the session answers with the timeout error.  All
\* sessions share one timeout, so deadlines pass in the order of the calls.
\* Cancelling a task that waits for the lock takes it out of the queue (or
\* passes the lock on, if it had just been woken); cancelling a task that
\* awaits a future cancels that very future (Task.cancel cancels what the
\* task waits on); cancelling compute_func leaves the installed future
\* pending, since CancelledError is not an Exception.
ToolTimeout(t) ==
    /\ SfFrame
    /\ pc[t] \in {"wait1", "wait2", "wait3", "await_future", "computing"}
    /\ \A u \in Calls : u < t => pc[u] = "done"
    /\ Return(t, <<"timeout", t>>)
    /\ cache_lock' =
         IF pc[t] = "computing" THEN cache_lock
         ELSE IF cache_lock.holder = t THEN Release(cache_lock)
         ELSE [cache_lock EXCEPT !.waiters = Without(@, t)]
    /\ future' =
         IF pc[t] = "await_future" /\ future[awaiting[t]] = "pending"
           THEN [future EXCEPT ![awaiting[t]] = "cancelled"]
           ELSE future
    /\ UNCHANGED <<key, done_before, awaiting, computation_cache, executions,
                   raised>>

SessionNext ==
    \/ SfNext
    \/ \E t \in Calls : ToolTimeout(t)

(***************************************************************************)
(* ClangdManager                                                           *)
(*                                                                         *)
(* Positions of a task: "want_X" is at `async with self.lock` of X (start, *)
(* restart, stop), "wait_X" is queued on the lock there, "spawning" awaits *)
(* create_subprocess_exec inside start(), "stop_internal" is inside the    *)
(* awaits of _stop_internal(), "restart_delay" is in restart()'s sleep,    *)
(* "sleeping" is in the health monitor's sleep.                            *)
(***************************************************************************)
NoProcess == [state |-> "none", restart_count |-> 0]

ClInit ==
    /\ mpc = [c \in MgrTasks |-> IF c = Owner THEN "init" ELSE "absent"]
    /\ process = NoProcess
    /\ lock = FreeLock
    /\ health_task = 0
    /\ shutdown_event = FALSE
    /\ restart_count = [c \in MgrTasks |-> 0]
    /\ spawned = 0
    /\ fatal = FALSE
    /\ spc = [s \in Sessions |-> "idle"]
    /\ lsp_write_lock = FreeLock

Range(seq) == {seq[i] : i \in 1..Len(seq)}

OpOf(p) ==
    CASE p \in {"want_start", "wait_start"} -> "start"
      [] p \in {"want_restart", "wait_restart"} -> "restart"
      [] p \in {"want_stop", "wait_stop"} -> "stop"

\* `while not self._shutdown_event.is_set()` (line 228)
LoopTop == IF shutdown_event THEN "exited" ELSE "sleeping"

\* asyncio.Lock.acquire() succeeds: at once when the lock is free, or after
\* queueing when release() has passed the lock to this task.  The lock is
\* not reentrant: a task that holds it and acquires it again queues behind
\* itself.
CanTake(c) ==
    IF mpc[c] \in {"want_start", "want_restart", "want_stop"}
      THEN lock.holder = 0
      ELSE /\ mpc[c] \in {"wait_start", "wait_restart", "wait_stop"}
           /\ lock.holder = c
           /\ c \notin Range(lock.waiters)

\* start() returns to its caller (lines 69, 102): LSPClient.start goes on,
\* restart() stores its counter (lines 139-142) and the monitor loops.
ReturnFromStart(c, proc, pcs, lk) ==
    /\ lock' = Release(lk)
    /\ IF c = Owner
         THEN /\ process' = proc
              /\ mpc' = [pcs EXCEPT ![c] = "running"]
         ELSE /\ process' = [proc EXCEPT !.restart_count = restart_count[c]]
              /\ mpc' = [pcs EXCEPT ![c] = LoopTop]

\* the code from `async with self.lock` to the first await that suspends,
\* in start() (lines 66-79), restart() (121-135) and stop() (150-151)
MgrLockTake(c) ==
    /\ c \in MgrTasks
    /\ CanTake(c)
    /\ LET lk == [lock EXCEPT !.holder = c]
           op == OpOf(mpc[c]) IN
       CASE op = "start" ->
              /\ IF process.state = "alive"
                   THEN ReturnFromStart(c, process, mpc, lk)
                   ELSE /\ mpc' = [mpc EXCEPT ![c] = "spawning"]
                        /\ lock' = lk
                        /\ UNCHANGED process
              /\ UNCHANGED <<restart_count, fatal>>
         [] op = "restart" ->
              IF process.state # "none" /\ process.restart_count >= max_restarts
                THEN /\ fatal' = TRUE
                     /\ lock' = Release(lk)
                     /\ mpc' = [mpc EXCEPT ![c] = "exited"]
                     /\ UNCHANGED <<restart_count, process>>
                ELSE /\ restart_count' = [restart_count EXCEPT ![c] =
                            IF process.state # "none"
                              THEN process.restart_count + 1 ELSE 0]
                     /\ mpc' = [mpc EXCEPT ![c] =
                            IF process.state # "none"
                              THEN "stop_internal" ELSE "restart_delay"]
                     /\ lock' = lk
                     /\ UNCHANGED <<fatal, process>>
         [] op = "stop" ->
              /\ IF process.state = "none"
                   THEN /\ lock' = Release(lk)
                        /\ mpc' = [mpc EXCEPT ![c] = "stopped"]
                   ELSE /\ lock' = lk
                        /\ mpc' = [mpc EXCEPT ![c] = "stop_internal"]
              /\ UNCHANGED <<restart_count, fatal, process>>
    /\ UNCHANGED <<health_task, shutdown_event, spawned, spc, lsp_write_lock>>
    /\ ClFrame

\* `async with self.lock` finds the lock taken: the task queues
MgrLockBlock(c) ==
    /\ c \in MgrTasks
    /\ mpc[c] \in {"want_start", "want_restart", "want_stop"}
    /\ lock.holder # 0
    /\ lock' = Enqueue(lock, c)
    /\ mpc' = [mpc EXCEPT ![c] =
          CASE OpOf(mpc[c]) = "start" -> "wait_start"
            [] OpOf(mpc[c]) = "restart" -> "wait_restart"
            [] OpOf(mpc[c]) = "stop" -> "wait_stop"]
    /\ UNCHANGED <<process, health_task, shutdown_event, restart_count,
                   spawned, fatal, spc, lsp_write_lock>>
    /\ ClFrame

\* LSPClient.start (lsp_client.py line 114) calls ClangdManager.start()
OwnerStart ==
    /\ mpc[Owner] = "init"
    /\ mpc' = [mpc EXCEPT ![Owner] = "want_start"]
    /\ UNCHANGED <<process, lock, health_task, shutdown_event, restart_count,
                   spawned, fatal, spc, lsp_write_lock>>
    /\ ClFrame

\* start() lines 79-102: create_subprocess_exec returns, the process is
\* recorded and a new health monitor task is created
Spawned(c) ==
    /\ c \in MgrTasks
    /\ mpc[c] = "spawning"
    /\ \E m \in Monitors :
         /\ mpc[m] = "absent"
         /\ \A n \in Monitors : n < m => mpc[n] # "absent"
         /\ health_task' = m
         /\ ReturnFromStart(c, [state |-> "alive", restart_count |-> 0],
                            [mpc EXCEPT ![m] = "sleeping"], lock)
    /\ spawned' = spawned + 1
    /\ UNCHANGED <<shutdown_event, restart_count, fatal, spc, lsp_write_lock>>
    /\ ClFrame

\* start() lines 104-109: create_subprocess_exec raises; RuntimeError ends
\* LSPClient.start, or the monitor's loop (lines 238-240)
SpawnFails(c) ==
    /\ c \in MgrTasks
    /\ mpc[c] = "spawning"
    /\ lock' = Release(lock)
    /\ mpc' = [mpc EXCEPT ![c] = IF c = Owner THEN "failed" ELSE "exited"]
    /\ UNCHANGED <<process, health_task, shutdown_event, restart_count,
                   spawned, fatal, spc, lsp_write_lock>>
    /\ ClFrame

\* _stop_internal (lines 155-196) runs to its end: the health task is
\* cancelled (a task that cancels and awaits itself swallows the
\* CancelledError and goes on), the process is terminated and forgotten.
\* Then stop() leaves the lock, and restart() starts its delay (line 135).
StopInternalDone(c) ==
    /\ c \in MgrTasks
    /\ mpc[c] = "stop_internal"
    /\ LET h == health_task
           hit == h # 0 /\ h # c /\ mpc[h] \notin {"exited", "cancelled"}
           pcs == IF hit THEN [mpc EXCEPT ![h] = "cancelled"] ELSE mpc
           lk == IF hit THEN [lock EXCEPT !.waiters = Without(@, h)] ELSE lock IN
       IF c = Owner
         THEN /\ mpc' = [pcs EXCEPT ![c] = "stopped"]
              /\ lock' = Release(lk)
         ELSE /\ mpc' = [pcs EXCEPT ![c] = "restart_delay"]
              /\ lock' = lk
    /\ process' = NoProcess
    /\ health_task' = 0
    /\ UNCHANGED <<shutdown_event, restart_count, spawned, fatal, spc,
                   lsp_write_lock>>
    /\ ClFrame

\* restart() lines 135-138: the delay is over, `await self.start()`
RestartDelayDone(m) ==
    /\ m \in Monitors
    /\ mpc[m] = "restart_delay"
    /\ mpc' = [mpc EXCEPT ![m] = "want_start"]
    /\ UNCHANGED <<process, lock, health_task, shutdown_event, restart_count,
                   spawned, fatal, spc, lsp_write_lock>>
    /\ ClFrame

\* _health_monitor lines 228-237: the sleep is over; a dead process leads to
\* restart(), anything else back to the loop's head
MonitorTick(m) ==
    /\ m \in Monitors
    /\ mpc[m] = "sleeping"
    /\ mpc' = [mpc EXCEPT ![m] =
          IF process.state = "dead" THEN "want_restart" ELSE LoopTop]
    /\ UNCHANGED <<process, lock, health_task, shutdown_event, restart_count,
                   spawned, fatal, spc, lsp_write_lock>>
    /\ ClFrame

\* ClangdManager.stop (lines 144-151), called by LSPClient.stop
OwnerStop ==
    /\ mpc[Owner] = "running"
    /\ shutdown_event' = TRUE
    /\ mpc' = [mpc EXCEPT ![Owner] = "want_stop"]
    /\ UNCHANGED <<process, lock, health_task, restart_count, spawned, fatal,
                   spc, lsp_write_lock>>
    /\ ClFrame

\* the clangd process exits on its own
ProcessDies ==
    /\ process.state = "alive"
    /\ process' = [process EXCEPT !.state = "dead"]
    /\ UNCHANGED <<mpc, lock, health_task, shutdown_event, restart_count,
                   spawned, fatal, spc, lsp_write_lock>>
    /\ ClFrame

MgrStep ==
    \/ \E c \in MgrTasks : MgrLockTake(c)
    \/ \E c \in MgrTasks : MgrLockBlock(c)
    \/ \E c \in MgrTasks : Spawned(c)
    \/ \E c \in MgrTasks : StopInternalDone(c)
    \/ \E m \in Monitors : RestartDelayDone(m)
    \/ \E m \in Monitors : MonitorTick(m)

(***************************************************************************)
(* LSP messages of the daemon's sessions.                                  *)
(*                                                                         *)
(* LSPClient._send_message (lsp_client.py lines 425-433) writes the        *)
(* message to clangd's stdin and awaits drain(): the write is in flight    *)
(* from the write until drain() returns, which suspends the sender when    *)
(* the pipe is full.  Positions of a session: "open_drain" and "req_drain" *)
(* are the drains of didOpen and of the request of a position tool,        *)
(* "req_wait" awaits its response; "lock_wait" queues on the write lock,   *)
(* "locked_drain" and "locked_wait" are the drain and the response wait of *)
(* Backend.execute_lsp_request.                                            *)
(***************************************************************************)
\* the checks at the head of LSPClient.request and notify (lines 221-227)
ProcessOk == process.state = "alive"

\* sessions are served once Backend.start has returned
Serving == mpc[Owner] = "running"

\* cpp_definition, cpp_references, cpp_hover, ... : session.py lines
\* 479-533 build LSPMethods over backend.lsp_client and call it directly;
\* its fresh DocumentManager sends didOpen first (lsp_methods.py line 65).
\* A dead or missing process raises and the tool call ends with an error.
PositionTool(s) ==
    /\ spc[s] = "idle"
    /\ Serving
    /\ spc' = [spc EXCEPT ![s] = IF ProcessOk THEN "open_drain" ELSE "idle"]
    /\ UNCHANGED <<mpc, process, lock, health_task, shutdown_event,
                   restart_count, spawned, fatal, lsp_write_lock>>
    /\ ClFrame

\* Backend.execute_lsp_request line 170 with the write lock lk held by s
LockedRequest(s, lk) ==
    IF ProcessOk
      THEN /\ spc' = [spc EXCEPT ![s] = "locked_drain"]
           /\ lsp_write_lock' = lk
      ELSE /\ spc' = [spc EXCEPT ![s] = "idle"]
           /\ lsp_write_lock' = Release(lk)

\* cpp_search_symbols: session.py line 599 goes through
\* Backend.execute_lsp_request (backend.py lines 164-170)
SearchTool(s) ==
    /\ spc[s] = "idle"
    /\ Serving
    /\ IF lsp_write_lock.holder = 0
         THEN LockedRequest(s, [lsp_write_lock EXCEPT !.holder = s])
         ELSE /\ lsp_write_lock' = Enqueue(lsp_write_lock, s)
              /\ spc' = [spc EXCEPT ![s] = "lock_wait"]
    /\ UNCHANGED <<mpc, process, lock, health_task, shutdown_event,
                   restart_count, spawned, fatal>>
    /\ ClFrame

\* the write lock has been passed to a queued session
WriteLockGranted(s) ==
    /\ spc[s] = "lock_wait"
    /\ lsp_write_lock.holder = s
    /\ LockedRequest(s, lsp_write_lock)
    /\ UNCHANGED <<mpc, process, lock, health_task, shutdown_event,
                   restart_count, spawned, fatal>>
    /\ ClFrame

\* drain() returns (or raises, when clangd is gone).  After didOpen the
\* position tool sends its request (lsp_methods.py line 196); after a
\* request the sender awaits the response.
DrainDone(s) ==
    /\ spc[s] \in {"open_drain", "req_drain", "locked_drain"}
    /\ IF ProcessOk
         THEN /\ spc' = [spc EXCEPT ![s] =
                    CASE spc[s] = "open_drain" -> "req_drain"
                      [] spc[s] = "req_drain" -> "req_wait"
                      [] spc[s] = "locked_drain" -> "locked_wait"]
              /\ UNCHANGED lsp_write_lock
         ELSE /\ spc' = [spc EXCEPT ![s] = "idle"]
              /\ lsp_write_lock' = IF spc[s] = "locked_drain"
                                     THEN Release(lsp_write_lock)
                                     ELSE lsp_write_lock
    /\ UNCHANGED <<mpc, process, lock, health_task, shutdown_event,
                   restart_count, spawned, fatal>>
    /\ ClFrame

\* LSPClient.request line 250: the response arrives or the request times
\* out; execute_lsp_request leaves the write lock
RequestEnds(s) ==
    /\ spc[s] \in {"req_wait", "locked_wait"}
    /\ spc' = [spc EXCEPT ![s] = "idle"]
    /\ lsp_write_lock' = IF spc[s] = "locked_wait"
                           THEN Release(lsp_write_lock)
                           ELSE lsp_write_lock
    /\ UNCHANGED <<mpc, process, lock, health_task, shutdown_event,
                   restart_count, spawned, fatal>>
    /\ ClFrame

ClNext ==
    \/ OwnerStart
    \/ MgrStep
    \/ \E c \in MgrTasks : SpawnFails(c)
    \/ OwnerStop
    \/ ProcessDies
    \/ \E s \in Sessions : PositionTool(s)
    \/ \E s \in Sessions : SearchTool(s)
    \/ \E s \in Sessions : WriteLockGranted(s)
    \/ \E s \in Sessions : DrainDone(s)
    \/ \E s \in Sessions : RequestEnds(s)

(***************************************************************************)
(* MCP request handling.                                                   *)
(*                                                                         *)
(* JSON values are records [t, n, s]: the JSON type, the number (for a     *)
(* number or a boolean, which Python's bool carries as 1 or 0) and the     *)
(* string.  "absent" stands for a missing key, for which dict.get gives    *)
(* None.                                                                   *)
(***************************************************************************)
JAbsent == [t |-> "absent", n |-> 0, s |-> ""]
JInt(i) == [t |-> "int", n |-> i, s |-> ""]
JFloat(i) == [t |-> "float", n |-> i, s |-> ""]
JBool(b) == [t |-> "bool", n |-> IF b THEN 1 ELSE 0, s |-> ""]
JStr(str) == [t |-> "str", n |-> 0, s |-> str]

\* Python's truth value of a JSON value (`if message_id`)
Truthy(j) ==
    CASE j.t = "absent" -> FALSE
      [] j.t \in {"int", "float", "bool"} -> j.n # 0
      [] j.t = "str" -> j.s # ""

\* isinstance(x, int): bool is a subclass of int
IsInstanceInt(j) == j.t \in {"int", "bool"}
IsInstanceStr(j) == j.t = "str"

\* the directories: the project root and some other directory
Dirs == {"proj", "other"}
FileStrings == {"a.cpp", "missing.cpp", "/proj/a.cpp", "/other/b.cpp", "../other/b.cpp"}

\* Path(f).is_absolute()
IsAbsolute(f) == f \in {"/proj/a.cpp", "/other/b.cpp"}

\* (Path(base) / f).resolve(), for base one of the directories /proj, /other
ResolveFrom(base, f) ==
    CASE f = "a.cpp" -> [dir |-> base, name |-> "a.cpp"]
      [] f = "missing.cpp" -> [dir |-> base, name |-> "missing.cpp"]
      [] f = "/proj/a.cpp" -> [dir |-> "proj", name |-> "a.cpp"]
      [] f = "/other/b.cpp" -> [dir |-> "other", name |-> "b.cpp"]
      [] f = "../other/b.cpp" -> [dir |-> "other", name |-> "b.cpp"]

Ids == {JAbsent, JInt(0), JInt(1), JStr(""), JStr("a")}
PositionTools == {"cpp_definition", "cpp_references", "cpp_hover",
                  "cpp_incoming_calls", "cpp_outgoing_calls"}
DiscoveryTools == {"cpp_list_files", "cpp_search_symbols"}
FileArgs == {JAbsent, JInt(1)} \cup {JStr(f) : f \in FileStrings}
LineArgs == {JAbsent, JInt(0), JInt(1), JBool(TRUE), JFloat(1)}
ColumnArgs == {JAbsent, JInt(0), JInt(1)}

NoReply == [kind |-> "none", code |-> 0, id |-> JAbsent]
Result(id) == [kind |-> "result", code |-> 0, id |-> id]
Error(code, id) == [kind |-> "error", code |-> code, id |-> id]

NoRequest == [method |-> "", id |-> JAbsent, params |-> "object", tool |-> "",
              file |-> JAbsent, line |-> JAbsent, column |-> JAbsent]

BaseFiles == {[dir |-> "proj", name |-> "a.cpp"], [dir |-> "other", name |-> "b.cpp"]}

\* a connection that has handled nothing yet
McpIdle ==
    /\ initialized = [c \in Conns |-> FALSE]
    /\ is_running = [c \in Conns |-> TRUE]
    /\ init_handled = [c \in Conns |-> FALSE]
    /\ conn = 0
    /\ request = NoRequest
    /\ reply = NoReply
    /\ stage = "none"
    /\ lsp_sent = {}

\* the monolithic server serves one connection, its stdio; the daemon
\* serves one ClientSession per client
ConnsOf(md) == IF md = "server" THEN {1} ELSE Conns

\* `self.initialized = True` (server.py line 214, session.py line 125): the
\* flag is an attribute of the server or session object
SetInitialized_shared(flags, c) == [x \in Conns |-> TRUE]
SetInitialized(flags, c) == [flags EXCEPT ![c] = TRUE]

\* connection c reads a request and its handling begins
Receive(c, r) ==
    /\ c \in ConnsOf(mode)
    /\ is_running[c]
    /\ conn' = c
    /\ request' = r

\* the connection is served by either front end, from any directory, and
\* a.cpp may exist in the other directory too
McpInit ==
    /\ mode \in {"server", "session"}
    /\ cwd \in Dirs
    /\ files \in {BaseFiles \cup extra :
                    extra \in SUBSET {[dir |-> "other", name |-> "a.cpp"]}}
    /\ McpIdle

\* the one connection the other subsystems' specifications start with
McpQuiet ==
    /\ mode = "session"
    /\ cwd = "proj"
    /\ files = BaseFiles
    /\ McpIdle

\* the dispatch tables of _handle_message (server.py lines 172-183) and
\* _handle_request (session.py lines 81-95)
KnownMethods(md) ==
    {"initialize", "tools/list", "tools/call", "ping", "resources/list", "prompts/list"}
        \cup (IF md = "session" THEN {"shutdown"} ELSE {})

\* `{...} if message_id else None` (server.py lines 193, 204; session.py
\* lines 105, 116)
IfMessageId(id, rep) == IF Truthy(id) THEN rep ELSE NoReply

\* the file the position checks of _validate_tool_arguments resolve
\* (server.py lines 543-546, session.py lines 449-452)
ValidatedFile(f) == ResolveFrom("proj", f)

\* _validate_tool_arguments (server.py lines 501-561, session.py lines
\* 407-464) for the tools that are not discovery tools: TRUE when it raises
\* ValueError
LineOk(j) == IsInstanceInt(j) /\ j.n >= 1

PositionArgsRejected(r) ==
    \/ r.file = JAbsent \/ r.line = JAbsent \/ r.column = JAbsent
    \/ ~IsInstanceStr(r.file)
    \/ ~LineOk(r.line)
    \/ ~LineOk(r.column)
    \/ ValidatedFile(r.file.s) \notin files
    \/ ValidatedFile(r.file.s).dir # "proj"

\* the file LSPMethods resolves with Path(file).resolve() (lsp_methods.py
\* line 182): the server has stored the validated path in the arguments
\* (server.py line 558), the session has not
ExecutedFile(r) ==
    IF mode = "server" THEN ValidatedFile(r.file.s) ELSE ResolveFrom(cwd, r.file.s)

Req(method, id, params) ==
    [NoRequest EXCEPT !.method = method, !.id = id, !.params = params]

\* _handle_initialize (server.py lines 206-229, session.py lines 118-140).
\* With "params": null, params.get raises AttributeError, which the
\* dispatcher's `except Exception` turns into error -32603.
HandleInitialize(c, id, params) ==
    /\ Receive(c, Req("initialize", id, params))
    /\ IF params = "null"
         THEN /\ reply' = IfMessageId(id, Error(-32603, id))
              /\ UNCHANGED <<initialized, init_handled>>
         ELSE /\ reply' = Result(id)
              /\ initialized' = SetInitialized(initialized, c)
              /\ init_handled' = [init_handled EXCEPT ![c] = TRUE]
    /\ stage' = "none"
    /\ lsp_sent' = {}
    /\ UNCHANGED <<mode, cwd, files, is_running>>
    /\ McpFrame

\* tools/list, ping, resources/list, prompts/list: a result with the id
HandleSimple(c, method, id) ==
    /\ method \in {"tools/list", "ping", "resources/list", "prompts/list"}
    /\ Receive(c, Req(method, id, "object"))
    /\ reply' = Result(id)
    /\ stage' = "none"
    /\ lsp_sent' = {}
    /\ UNCHANGED <<mode, cwd, files, initialized, is_running, init_handled>>
    /\ McpFrame

\* session.py lines 81-83
\* `self._is_running = False` (session.py line 82; close, lines 725-729)
StopSession_all(flags, c) == [x \in Conns |-> FALSE]
StopSession(flags, c) == [flags EXCEPT ![c] = FALSE]

HandleShutdown(c, id) ==
    /\ mode = "session"
    /\ Receive(c, Req("shutdown", id, "object"))
    /\ reply' = Result(id)
    /\ is_running' = StopSession(is_running, c)
    /\ stage' = "none"
    /\ lsp_sent' = {}
    /\ UNCHANGED <<mode, cwd, files, initialized, init_handled>>
    /\ McpFrame

\* the else branch of the dispatcher (server.py lines 184-193, session.py
\* lines 96-105)
HandleUnknown(c, method, id) ==
    /\ method \notin KnownMethods(mode)
    /\ Receive(c, Req(method, id, "object"))
    /\ reply' = IfMessageId(id, Error(-32601, id))
    /\ stage' = "none"
    /\ lsp_sent' = {}
    /\ UNCHANGED <<mode, cwd, files, initialized, is_running, init_handled>>
    /\ McpFrame

\* how a tool's execution ends: with a result, with an exception of the LSP
\* layer, at the tool timeout, before anything is sent because clangd is
\* not running, or (session only, see ToolTimeout) cancelled by the await
\* of a cancelled shared future
ReplyOfOutcome(out, id) ==
    CASE out = "result" -> Result(id)
      [] out \in {"error", "timeout", "unavailable"} -> Error(-32603, id)
      [] out = "cancelled" -> NoReply

\* the tools/call requests a client may send: a position tool with any
\* arguments, a tool that does not exist, a discovery tool
ToolCalls ==
    {[method |-> "tools/call", id |-> id, params |-> "object",
      tool |-> "cpp_definition", file |-> f, line |-> l, column |-> c] :
        id \in Ids, f \in FileArgs, l \in LineArgs, c \in ColumnArgs}
    \cup {[method |-> "tools/call", id |-> id, params |-> "object",
           tool |-> "nope", file |-> f, line |-> JInt(1), column |-> JInt(1)] :
            id \in Ids, f \in {JAbsent, JStr("a.cpp")}}
    \cup {[NoRequest EXCEPT !.method = "tools/call", !.id = id, !.params = ps,
                            !.tool = tool] :
            id \in Ids, ps \in {"object", "null"}, tool \in DiscoveryTools}

\* the ways the execution of r can end; a call that is answered before
\* its tool runs has one
OutcomesFor(c, r) ==
    IF r.params = "null" \/ ~initialized[c] THEN {"result"}
    ELSE IF r.tool \in DiscoveryTools
      THEN {"result", "error", "timeout"}
             \cup (IF mode = "session" THEN {"cancelled"} ELSE {})
    ELSE IF PositionArgsRejected(r) \/ r.tool \notin PositionTools
           \/ ExecutedFile(r) \notin files
      THEN {"result"}
    ELSE {"result", "error", "timeout", "unavailable"}

\* _handle_tool_call (server.py lines 430-499, session.py lines 332-405)
\* with _validate_tool_arguments and _execute_tool
HandleToolCall(c, r) ==
  \E out \in OutcomesFor(c, r) :
    /\ r.method = "tools/call"
    /\ Receive(c, r)
    /\ IF r.params = "null"
         THEN /\ reply' = IfMessageId(r.id, Error(-32603, r.id))
              /\ stage' = "none"
              /\ lsp_sent' = {}
              /\ UNCHANGED is_running
       ELSE IF ~initialized[c]
         THEN /\ reply' = Error(-32002, r.id)
              /\ stage' = "none"
              /\ lsp_sent' = {}
              /\ UNCHANGED is_running
       ELSE IF r.tool \in DiscoveryTools
         THEN /\ reply' = ReplyOfOutcome(out, r.id)
              /\ stage' = "executed"
              /\ is_running' = [is_running EXCEPT ![c] = (out # "cancelled")]
              /\ lsp_sent' = {}
       ELSE IF PositionArgsRejected(r)
         THEN /\ reply' = Error(-32602, r.id)
              /\ stage' = "validated"
              /\ lsp_sent' = {}
              /\ UNCHANGED is_running
       ELSE IF r.tool \notin PositionTools
         THEN /\ reply' = Error(-32602, r.id)
              /\ stage' = "executed"
              /\ lsp_sent' = {}
              /\ UNCHANGED is_running
       ELSE IF ExecutedFile(r) \notin files
         THEN /\ reply' = Error(-32603, r.id)
              /\ stage' = "executed"
              /\ lsp_sent' = {}
              /\ UNCHANGED is_running
         ELSE /\ reply' = ReplyOfOutcome(out, r.id)
              /\ stage' = "executed"
              /\ lsp_sent' = IF out = "unavailable" THEN {}
                             ELSE {[file |-> ExecutedFile(r),
                                    line |-> r.line.n - 1,
                                    character |-> r.column.n - 1]}
              /\ UNCHANGED is_running
    /\ UNCHANGED <<mode, cwd, files, initialized, init_handled>>
    /\ McpFrame

\* the specification of one connection, with every request; the
\* connection is the first one
OneConn == {1}

McpNext ==
    \/ \E c \in OneConn, id \in Ids, ps \in {"object", "null"} : HandleInitialize(c, id, ps)
    \/ \E c \in OneConn, id \in Ids,
          m \in {"tools/list", "ping", "resources/list", "prompts/list"} :
          HandleSimple(c, m, id)
    \/ \E c \in OneConn, id \in Ids : HandleShutdown(c, id)
    \/ \E c \in OneConn, id \in Ids,
          m \in {"nope", "shutdown", "notifications/initialized"} :
          HandleUnknown(c, m, id)
    \/ \E c \in OneConn, r \in ToolCalls : HandleToolCall(c, r)

\* the specification of several connections, with a few requests on each
GateCalls ==
    {r \in ToolCalls :
        /\ r.id \in {JInt(0), JInt(1)}
        /\ r.params = "object"
        /\ r.tool \in {"cpp_definition", "cpp_list_files"}
        /\ r.file \in {JAbsent, JStr("a.cpp")}
        /\ r.line \in {JAbsent, JInt(1)}
        /\ r.column \in {JAbsent, JInt(1)}}

GateNext ==
    \/ \E c \in Conns, id \in {JInt(0), JInt(1)} : HandleInitialize(c, id, "object")
    \/ \E c \in Conns, id \in {JInt(0), JInt(1)} : HandleSimple(c, "tools/list", id)
    \/ \E c \in Conns, id \in {JInt(0), JInt(1)} : HandleShutdown(c, id)
    \/ \E c \in Conns, id \in {JInt(0), JInt(1)} : HandleUnknown(c, "nope", id)
    \/ \E c \in Conns, r \in GateCalls : HandleToolCall(c, r)

\* either front end, run from the project root
GateInit ==
    /\ mode \in {"server", "session"}
    /\ cwd = "proj"
    /\ files = BaseFiles
    /\ McpIdle

(***************************************************************************)
(* Daemon bootstrap.                                                       *)
(*                                                                         *)
(* Each attempt is a process that runs run_daemon_entrypoint without the   *)
(* debug option; its steps are its system calls.  An flock belongs to the  *)
(* open file description, which the forked child shares with its parent:   *)
(* LOCK_UN by either of them releases it for both.  A lock file created    *)
(* by attempt a is inode a.                                                *)
(***************************************************************************)
BootInit ==
    /\ apc = [a \in Attempts |-> "start"]
    /\ cpc = [a \in Attempts |-> "none"]
    /\ fd_inode = [a \in Attempts |-> 0]
    /\ lock_inode = 0
    /\ flock_owner = [i \in Attempts |-> 0]
    /\ socket = [exists |-> FALSE, listener |-> 0]

NoSocket == [exists |-> FALSE, listener |-> 0]

\* utils.is_socket_active (lines 202-237): the file exists and a process
\* accepts connections on it
is_socket_active ==
    /\ socket.exists
    /\ socket.listener # 0
    /\ cpc[socket.listener] = "listening"

\* the `finally` of run_daemon_entrypoint (lines 110-115): LOCK_UN, close,
\* unlink lock_path if it exists
Finally(a) ==
    /\ flock_owner' = IF flock_owner[fd_inode[a]] = a
                        THEN [flock_owner EXCEPT ![fd_inode[a]] = 0]
                        ELSE flock_owner
    /\ lock_inode' = 0

\* line 27: os.open(lock_path, O_CREAT | O_WRONLY)
OpenLockFile(a) ==
    /\ apc[a] = "start"
    /\ lock_inode' = IF lock_inode = 0 THEN a ELSE lock_inode
    /\ fd_inode' = [fd_inode EXCEPT ![a] = lock_inode']
    /\ apc' = [apc EXCEPT ![a] = "opened"]
    /\ UNCHANGED <<cpc, flock_owner, socket>>
    /\ BootFrame

\* lines 29-36: flock(LOCK_EX | LOCK_NB) succeeds, or fails and the
\* attempt sleeps
TryFlock(a) ==
    /\ apc[a] = "opened"
    /\ IF flock_owner[fd_inode[a]] = 0
         THEN /\ flock_owner' = [flock_owner EXCEPT ![fd_inode[a]] = a]
              /\ apc' = [apc EXCEPT ![a] = "locked"]
         ELSE /\ apc' = [apc EXCEPT ![a] = "waiting"]
              /\ UNCHANGED flock_owner
    /\ UNCHANGED <<cpc, fd_inode, lock_inode, socket>>
    /\ BootFrame

\* lines 36-40: after the sleep, return if the socket is active, else
\* sys.exit(1)
WaitDone(a) ==
    /\ apc[a] = "waiting"
    /\ apc' = [apc EXCEPT ![a] = IF is_socket_active THEN "returned" ELSE "exit1"]
    /\ UNCHANGED <<cpc, fd_inode, lock_inode, flock_owner, socket>>
    /\ BootFrame

\* lines 42-55: with the lock, return if the socket is active, else fork
CheckSocket(a) ==
    /\ apc[a] = "locked"
    /\ IF is_socket_active
         THEN /\ apc' = [apc EXCEPT ![a] = "returned"]
              /\ Finally(a)
              /\ UNCHANGED cpc
         ELSE /\ apc' = [apc EXCEPT ![a] = "parent_sleep"]
              /\ cpc' = [cpc EXCEPT ![a] = "forked"]
              /\ UNCHANGED <<flock_owner, lock_inode>>
    /\ UNCHANGED <<fd_inode, socket>>
    /\ BootFrame

\* lines 53-55: the parent's sleep is over, sys.exit(0) runs the `finally`
ParentExit(a) ==
    /\ apc[a] = "parent_sleep"
    /\ apc' = [apc EXCEPT ![a] = "exited"]
    /\ Finally(a)
    /\ UNCHANGED <<cpc, fd_inode, socket>>
    /\ BootFrame

\* the child reaches ClangarooDaemon.start (daemon.py lines 30-44):
\* cleanup_stale_socket, then Backend.start() begins
ChildStart(a) ==
    /\ cpc[a] = "forked"
    /\ cpc' = [cpc EXCEPT ![a] = "backend_starting"]
    /\ socket' = IF socket.exists /\ ~is_socket_active THEN NoSocket ELSE socket
    /\ UNCHANGED <<apc, fd_inode, lock_inode, flock_owner>>
    /\ BootFrame

\* daemon.py lines 44-59: Backend.start() has returned; start_unix_server
\* removes a socket file that is in the way and binds a new one
ChildListen(a) ==
    /\ cpc[a] = "backend_starting"
    /\ cpc' = [cpc EXCEPT ![a] = "listening"]
    /\ socket' = [exists |-> TRUE, listener |-> a]
    /\ UNCHANGED <<apc, fd_inode, lock_inode, flock_owner>>
    /\ BootFrame

\* Config validation or Backend.start() raises (__main__.py lines 90-108)
ChildFails(a) ==
    /\ cpc[a] \in {"forked", "backend_starting"}
    /\ cpc' = [cpc EXCEPT ![a] = "failed"]
    /\ Finally(a)
    /\ UNCHANGED <<apc, fd_inode, socket>>
    /\ BootFrame

\* ClangarooDaemon.shutdown (daemon.py lines 83-108): the socket path is
\* unlinked, daemon.start() returns and the child runs the `finally`
DaemonShutdown(a) ==
    /\ cpc[a] = "listening"
    /\ cpc' = [cpc EXCEPT ![a] = "exited"]
    /\ socket' = NoSocket
    /\ Finally(a)
    /\ UNCHANGED <<apc, fd_inode>>
    /\ BootFrame

BootNext ==
    \/ \E a \in Attempts : OpenLockFile(a)
    \/ \E a \in Attempts : TryFlock(a)
    \/ \E a \in Attempts : WaitDone(a)
    \/ \E a \in Attempts : CheckSocket(a)
    \/ \E a \in Attempts : ParentExit(a)
    \/ \E a \in Attempts : ChildStart(a)
    \/ \E a \in Attempts : ChildListen(a)
    \/ \E a \in Attempts : ChildFails(a)
    \/ \E a \in Attempts : DaemonShutdown(a)

(***************************************************************************)
(* LSPClient.request and LSPClient._handle_response, with clangd running.  *)
(*                                                                         *)
(* request() takes the id, registers the future and writes the message     *)
(* without suspending in between, then waits for the future with a         *)
(* timeout.  The reader task hands every response to _handle_response.     *)
(* A response is [id, kind]; what a caller gets from it is recorded as     *)
(* <<kind, id>>.                                                           *)
(***************************************************************************)
LspInit ==
    /\ request_counter = 0
    /\ pending_requests = {}
    /\ caller_pc = [k \in Callers |-> "idle"]
    /\ caller_id = [k \in Callers |-> 0]
    /\ caller_result = [k \in Callers |-> <<"none", 0>>]
    /\ sent_ids = <<>>
    /\ wire = {}
    /\ answered = {}
    /\ ignored = {}

\* `request_id not in self.pending_requests` / `self.pending_requests[request_id]`
\* (lines 527-531): the entries a response's id selects
Lookup_by_arrival(pend, id) ==
    {e \in pend : \A f \in pend : e.id <= f.id}
Lookup(pend, id) == {e \in pend : e.id = id}

\* `del self.pending_requests[request_id]` after a timeout (lines 252-255)
Forget_kept(pend, id) == pend
Forget(pend, id) == {e \in pend : e.id # id}

\* lines 229-250: the id is taken, the entry registered, the message written
Request(k) ==
    /\ caller_pc[k] \in {"idle", "done"}
    /\ request_counter < MaxRequests
    /\ caller_id' = [caller_id EXCEPT ![k] = request_counter]
    /\ request_counter' = request_counter + 1
    /\ pending_requests' = pending_requests \cup {[id |-> request_counter, caller |-> k]}
    /\ sent_ids' = Append(sent_ids, request_counter)
    /\ caller_pc' = [caller_pc EXCEPT ![k] = "waiting"]
    /\ UNCHANGED <<caller_result, wire, answered, ignored>>
    /\ LspFrame

\* clangd answers a request it has received, in any order, with a result
\* or with an error
ClangdResponds(id, kind) ==
    /\ id \in Range(sent_ids)
    /\ id \notin answered
    /\ answered' = answered \cup {id}
    /\ wire' = wire \cup {[id |-> id, kind |-> kind]}
    /\ UNCHANGED <<request_counter, pending_requests, caller_pc, caller_id,
                   caller_result, sent_ids, ignored>>
    /\ LspFrame

\* the caller of entry e still awaits the future of that entry
Awaits(k, e) ==
    e.caller = k /\ caller_pc[k] = "waiting" /\ caller_id[k] = e.id

\* _handle_response (lines 522-543): an unknown id is dropped, a known one
\* leaves the table and resolves its future; the caller returns the result
\* or raises the error (lines 250-251, 258-262)
HandleResponse(resp) ==
    /\ resp \in wire
    /\ wire' = wire \ {resp}
    /\ LET hit == Lookup(pending_requests, resp.id) IN
       IF hit = {}
         THEN /\ ignored' = ignored \cup {resp.id}
              /\ UNCHANGED <<pending_requests, caller_pc, caller_result>>
         ELSE /\ pending_requests' = pending_requests \ hit
              /\ caller_pc' = [k \in Callers |->
                    IF \E e \in hit : Awaits(k, e) THEN "done" ELSE caller_pc[k]]
              /\ caller_result' = [k \in Callers |->
                    IF \E e \in hit : Awaits(k, e)
                      THEN <<resp.kind, resp.id>> ELSE caller_result[k]]
              /\ UNCHANGED ignored
    /\ UNCHANGED <<request_counter, caller_id, sent_ids, answered>>
    /\ LspFrame

\* lines 252-257: wait_for times out; the entry is deleted and TimeoutError
\* raised to the caller
RequestTimeout(k) ==
    /\ caller_pc[k] = "waiting"
    /\ pending_requests' = Forget(pending_requests, caller_id[k])
    /\ caller_pc' = [caller_pc EXCEPT ![k] = "done"]
    /\ caller_result' = [caller_result EXCEPT ![k] = <<"timeout", caller_id[k]>>]
    /\ UNCHANGED <<request_counter, caller_id, sent_ids, wire, answered, ignored>>
    /\ LspFrame

\* lines 249-262 when the task awaiting request() is cancelled, as by the
\* wait_for around a tool in a daemon session (session.py lines 355-360):
\* CancelledError is neither TimeoutError nor an Exception, so no handler
\* of request() runs; what is left of the table
OnCancelled(pend, id) == pend

CallerCancelled(k) ==
    /\ caller_pc[k] = "waiting"
    /\ pending_requests' = OnCancelled(pending_requests, caller_id[k])
    /\ caller_pc' = [caller_pc EXCEPT ![k] = "done"]
    /\ caller_result' = [caller_result EXCEPT ![k] = <<"cancelled", caller_id[k]>>]
    /\ UNCHANGED <<request_counter, caller_id, sent_ids, wire, answered, ignored>>
    /\ LspFrame

LspNext ==
    \/ \E k \in Callers : Request(k)
    \/ \E id \in 0..(MaxRequests - 1), kind \in {"result", "error"} : ClangdResponds(id, kind)
    \/ \E resp \in wire : HandleResponse(resp)
    \/ \E k \in Callers : RequestTimeout(k)

LspCancelNext ==
    \/ LspNext
    \/ \E k \in Callers : CallerCancelled(k)

(***************************************************************************)
(* LSP framing.                                                            *)
(*                                                                         *)
(* A byte stream is a sequence of tokens: "CL:" is the text                *)
(* `Content-Length: `, a digit is the decimal length, "CR" and "LF" are    *)
(* the bytes \r and \n, anything else is a byte of a body.  A message is   *)
(* represented by its JSON text: json.dumps with separators produces       *)
(* ASCII without raw \r or \n, so a body is any sequence of other bytes    *)
(* (digits included) and its length in characters is its length in bytes.  *)
(***************************************************************************)
Digits == <<"1", "2", "3", "4", "5", "6", "7", "8", "9">>
BodyBytes == {"x", "1"}
HeaderEnd == <<"CR", "LF", "CR", "LF">>

RECURSIVE SeqsUpTo(_, _)
\* the sequences over S of length 1..n
SeqsUpTo(S, n) ==
    IF n = 0 THEN {}
    ELSE LET shorter == SeqsUpTo(S, n - 1) IN
         {<<x>> : x \in S} \cup shorter
            \cup {Append(q, x) : q \in shorter, x \in S}

Bodies == SeqsUpTo(BodyBytes, MaxBody)

\* _send_message lines 428-430: header + content
Encode(body) == <<"CL:", Digits[Len(body)]>> \o HeaderEnd \o body

RECURSIVE EncodeAll(_)
EncodeAll(msgs) ==
    IF msgs = <<>> THEN <<>> ELSE Encode(Head(msgs)) \o EncodeAll(Tail(msgs))

\* buffer.find(b"\r\n\r\n") + 1, or 0 when it is not there (lines 461-464)
Find(buf) ==
    LET hits == {i \in 1..(Len(buf) - 3) : SubSeq(buf, i, i + 3) = HeaderEnd} IN
    IF hits = {} THEN 0 ELSE CHOOSE i \in hits : \A j \in hits : i <= j

\* lines 467-472: the number of the Content-Length line, 0 without one
ContentLength(header) ==
    IF Len(header) = 2 /\ header[1] = "CL:"
         /\ \E n \in 1..Len(Digits) : Digits[n] = header[2]
      THEN CHOOSE n \in 1..Len(Digits) : Digits[n] = header[2]
      ELSE 0

\* `len(buffer) >= message_end` (line 483)
HasFullMessage_strict(buf, message_end) == Len(buf) > message_end
HasFullMessage(buf, message_end) == Len(buf) >= message_end

\* json.loads(content) succeeds (lines 488-493): "!" is a byte that makes
\* the text invalid JSON
IsJson(content) == "!" \notin Range(content)

RECURSIVE Parse(_, _)
\* the inner loop of _read_messages (lines 461-500): <<buffer, dispatched>>
\* after it
Parse(buf, out) ==
    LET header_end == Find(buf) IN
    IF header_end = 0 THEN <<buf, out>>
    ELSE LET content_length == ContentLength(SubSeq(buf, 1, header_end - 1))
             message_start == header_end + 3
             message_end == message_start + content_length IN
         IF content_length = 0
           THEN Parse(SubSeq(buf, message_start + 1, Len(buf)), out)
         ELSE IF HasFullMessage(buf, message_end)
           THEN LET content == SubSeq(buf, message_start + 1, message_end) IN
                Parse(SubSeq(buf, message_end + 1, Len(buf)),
                      IF IsJson(content) THEN Append(out, content) ELSE out)
         ELSE <<buf, out>>

FrIdle ==
    /\ stream = EncodeAll(messages)
    /\ buffer = <<>>
    /\ dispatched = <<>>
    /\ split_in_header = FALSE
    /\ split_in_body = FALSE

\* any sequence of messages has been written to the pipe
FrInit ==
    /\ messages \in {<<>>} \cup SeqsUpTo(Bodies, MaxMsgs)
    /\ FrIdle

FrQuiet ==
    /\ messages = <<>>
    /\ FrIdle

\* lines 446-500: a read returns the next n bytes, the loop parses
ReadChunk(n) ==
    /\ n \in 1..Len(stream)
    /\ LET after == Parse(buffer \o SubSeq(stream, 1, n), dispatched) IN
       /\ buffer' = after[1]
       /\ dispatched' = after[2]
       /\ split_in_header' = (split_in_header \/ (after[1] # <<>> /\ Find(after[1]) = 0))
       /\ split_in_body' = (split_in_body \/ Find(after[1]) # 0)
    /\ stream' = SubSeq(stream, n + 1, Len(stream))
    /\ UNCHANGED messages
    /\ FrFrame

MaxStream == (MaxMsgs + 1) * (6 + MaxBody)

\* one frame that clangd got wrong: a header without a Content-Length
\* line, with a length that is no number or with length 0, before any body
\* or none; or a well-formed header before a body that is not JSON
BadHeaders == {<<"CT:">>, <<"CL:", "x">>, <<"CL:", "0">>}
BadFrames ==
    {h \o HeaderEnd \o b : h \in BadHeaders, b \in {<<>>} \cup Bodies}
       \cup {Encode(<<"!">>), Encode(<<"!", "x">>)}

\* the well-formed messages were written with one bad frame among them
BadFrameInit ==
    /\ \E pre \in {<<>>} \cup SeqsUpTo(Bodies, 1),
          post \in {<<>>} \cup SeqsUpTo(Bodies, MaxMsgs - 1),
          bad \in BadFrames :
          /\ messages = pre \o post
          /\ stream = EncodeAll(pre) \o bad \o EncodeAll(post)
    /\ buffer = <<>>
    /\ dispatched = <<>>
    /\ split_in_header = FALSE
    /\ split_in_body = FALSE

FrNext == \E n \in 1..MaxStream : ReadChunk(n)

(***************************************************************************)
(* Recursive call hierarchy.                                               *)
(*                                                                         *)
(* A call hierarchy item is represented by its key, the pair (uri, start   *)
(* line) that item_key is built from.  What clangd answers for an item is  *)
(* chosen when the request is made: calls from any set of items, each with *)
(* a number of call ranges, or a failure.  The two functions are the same  *)
(* code but for the method and field names (incomingCalls and "from",      *)
(* outgoingCalls and "to"); the traversal below is both.                   *)
(***************************************************************************)
Nodes == 1..NumNodes

\* call_hierarchy_max_per_level and call_hierarchy_max_calls of the
\* configuration (lines 756-763 and 879-886), scaled down
max_calls_per_level == 2
max_total_calls == 3

\* `ranges[:5]` (lines 789 and 912)
max_ranges_per_call == 5

RangeCounts == {1, max_ranges_per_call + 1}

Min(a, b) == IF a < b THEN a ELSE b

\* item_key (lines 776 and 899)
ItemKey(item) == item

\* `if item_key in visited` (lines 777 and 900)
Visited_never(seen, item) == FALSE
Visited(seen, item) == ItemKey(item) \in seen

\* "depth": current_depth + 1 (lines 802 and 925)
RecordDepth_level(depth) == depth
RecordDepth(depth) == depth + 1

RECURSIVE ListOf(_, _)
\* the calls from the items of S, ranges(n) call ranges from item n
ListOf(S, ranges) ==
    IF S = {} THEN <<>>
    ELSE LET n == CHOOSE x \in S : \A y \in S : x <= y IN
         <<[node |-> n, ranges |-> ranges[n]]>> \o ListOf(S \ {n}, ranges)

CallLists ==
    {ListOf(S, ranges) : S \in SUBSET Nodes, ranges \in [Nodes -> RangeCounts]}

RECURSIVE RecordsOf(_, _)
\* the call_data records of a list of calls, in the order they are appended
RecordsOf(calls, depth) ==
    IF calls = <<>> THEN <<>>
    ELSE [r \in 1..Min(Head(calls).ranges, max_ranges_per_call) |->
              [node |-> Head(calls).node, depth |-> RecordDepth(depth),
               call |-> r]]
           \o RecordsOf(Tail(calls), depth)

\* the sort key (depth, file, line) of lines 837 and 960
SortsBefore(a, b) ==
    \/ a.depth < b.depth
    \/ a.depth = b.depth /\ a.node < b.node

RECURSIVE InsertSorted(_, _)
\* rec placed after every element that does not sort after it
InsertSorted(sorted, rec) ==
    IF sorted = <<>> THEN <<rec>>
    ELSE IF SortsBefore(rec, Head(sorted)) THEN <<rec>> \o sorted
    ELSE <<Head(sorted)>> \o InsertSorted(Tail(sorted), rec)

RECURSIVE SortCalls(_)
\* list.sort is stable
SortCalls(calls) ==
    IF calls = <<>> THEN <<>>
    ELSE InsertSorted(SortCalls(SubSeq(calls, 1, Len(calls) - 1)),
                      calls[Len(calls)])

TrInit ==
    /\ tr_pc = "idle"
    /\ max_depth = 0
    /\ items = <<>>
    /\ current_depth = 0
    /\ item_index = 1
    /\ items_to_recurse = <<>>
    /\ all_calls = <<>>
    /\ visited = {}
    /\ hierarchy_requests = <<>>
    /\ skipped = FALSE
    /\ tr_result = <<>>

TrLocals == <<items, current_depth, item_index, items_to_recurse, all_calls,
              visited, hierarchy_requests, skipped>>
TrArgs == <<max_depth>>

\* lines 731-733 and 748-750: nothing to traverse
ReturnEmpty(depth, prepare_result) ==
    /\ tr_pc = "idle"
    /\ depth <= 0 \/ prepare_result = <<>>
    /\ tr_pc' = "done"
    /\ max_depth' = depth
    /\ tr_result' = <<>>
    /\ UNCHANGED TrLocals
    /\ TrFrame

\* lines 731-766 and 834: prepare, read the limits, start at depth 0
StartTraversal(depth, prepare_result) ==
    /\ tr_pc = "idle"
    /\ depth > 0
    /\ prepare_result # <<>>
    /\ tr_pc' = "level"
    /\ max_depth' = depth
    /\ items' = prepare_result
    /\ current_depth' = 0
    /\ all_calls' = <<>>
    /\ visited' = {}
    /\ UNCHANGED <<item_index, items_to_recurse, hierarchy_requests, skipped,
                   tr_result>>
    /\ TrFrame

\* lines 768-773: entry of _get_calls_at_depth
EnterLevel ==
    /\ tr_pc = "level"
    /\ IF current_depth >= max_depth
         THEN tr_pc' = "sort" /\ UNCHANGED <<item_index, items_to_recurse>>
         ELSE /\ tr_pc' = "item"
              /\ item_index' = 1
              /\ items_to_recurse' = <<>>
    /\ UNCHANGED <<items, current_depth, all_calls, visited,
                   hierarchy_requests, skipped, tr_result>>
    /\ UNCHANGED TrArgs
    /\ TrFrame

\* `for item in items[:max_calls_per_level]` has an item left
InLoop == item_index <= Min(Len(items), max_calls_per_level)

\* lines 777-779: the item was visited
SkipVisited ==
    /\ tr_pc = "item"
    /\ InLoop
    /\ Visited(visited, items[item_index])
    /\ item_index' = item_index + 1
    /\ skipped' = TRUE
    /\ UNCHANGED <<tr_pc, items, current_depth, items_to_recurse, all_calls,
                   visited, hierarchy_requests, tr_result>>
    /\ UNCHANGED TrArgs
    /\ TrFrame

\* lines 780-820: the request is made and answered with calls
RequestCalls(calls) ==
    /\ tr_pc = "item"
    /\ InLoop
    /\ ~Visited(visited, items[item_index])
    /\ visited' = visited \cup {ItemKey(items[item_index])}
    /\ hierarchy_requests' = Append(hierarchy_requests, ItemKey(items[item_index]))
    /\ LET taken == SubSeq(calls, 1, Min(Len(calls), max_calls_per_level))
           records == RecordsOf(taken, current_depth)
           room == max_total_calls - Len(all_calls) IN
       IF records # <<>> /\ Len(records) >= room
         THEN \* lines 807-809: the global limit is reached, return
              /\ all_calls' = all_calls \o
                     SubSeq(records, 1, IF room < 1 THEN 1 ELSE room)
              /\ tr_pc' = "sort"
              /\ UNCHANGED <<item_index, items_to_recurse>>
         ELSE /\ all_calls' = all_calls \o records
              /\ items_to_recurse' =
                    IF current_depth + 1 < max_depth
                      THEN items_to_recurse
                              \o [i \in 1..Len(taken) |-> taken[i].node]
                      ELSE items_to_recurse
              /\ item_index' = item_index + 1
              /\ UNCHANGED tr_pc
    /\ UNCHANGED <<items, current_depth, skipped, tr_result>>
    /\ UNCHANGED TrArgs
    /\ TrFrame

\* lines 821-823: the request raises (timeout, clangd error)
RequestFails ==
    /\ tr_pc = "item"
    /\ InLoop
    /\ ~Visited(visited, items[item_index])
    /\ visited' = visited \cup {ItemKey(items[item_index])}
    /\ hierarchy_requests' = Append(hierarchy_requests, ItemKey(items[item_index]))
    /\ item_index' = item_index + 1
    /\ UNCHANGED <<tr_pc, items, current_depth, items_to_recurse, all_calls,
                   skipped, tr_result>>
    /\ UNCHANGED TrArgs
    /\ TrFrame

\* lines 825-827: recurse to the next depth level, or return
EndLevel ==
    /\ tr_pc = "item"
    /\ ~InLoop
    /\ IF /\ items_to_recurse # <<>>
          /\ current_depth + 1 < max_depth
          /\ Len(all_calls) < max_total_calls
         THEN /\ tr_pc' = "level"
              /\ items' = items_to_recurse
              /\ current_depth' = current_depth + 1
         ELSE /\ tr_pc' = "sort"
              /\ UNCHANGED <<items, current_depth>>
    /\ UNCHANGED <<item_index, items_to_recurse, all_calls, visited,
                   hierarchy_requests, skipped, tr_result>>
    /\ UNCHANGED TrArgs
    /\ TrFrame

\* lines 836-840: sort, apply the global limit, return
SortAndReturn ==
    /\ tr_pc = "sort"
    /\ tr_result' = SubSeq(SortCalls(all_calls), 1,
                           Min(Len(all_calls), max_total_calls))
    /\ tr_pc' = "done"
    /\ UNCHANGED TrLocals
    /\ UNCHANGED TrArgs
    /\ TrFrame

PrepareResults == {[i \in 1..Len(l) |-> l[i].node] : l \in CallLists}

TrNext ==
    \/ \E depth \in 0..MaxDepth, prep \in PrepareResults :
          ReturnEmpty(depth, prep)
    \/ \E depth \in 0..MaxDepth, prep \in PrepareResults :
          StartTraversal(depth, prep)
    \/ EnterLevel
    \/ SkipVisited
    \/ \E calls \in CallLists : RequestCalls(calls)
    \/ RequestFails
    \/ EndLevel
    \/ SortAndReturn

(***************************************************************************)
(* The stdio proxy.                                                        *)
(*                                                                         *)
(* The daemon, the process that launches it, the peer of the connection    *)
(* and the proxy's stdin are the environment.  A connection that was lost  *)
(* with an error keeps the exception: StreamWriter.wait_closed raises it   *)
(* to whoever awaits it.                                                   *)
(***************************************************************************)
PxInit ==
    /\ px_pc = "ensure"
    /\ socket_active = FALSE
    /\ launcher = "none"
    /\ parent_exited = FALSE
    /\ polls = 0
    /\ stdin_eof = FALSE
    /\ stdin_task = "none"
    /\ stdout_task = "none"
    /\ connection = "none"
    /\ conn_exc = "none"
    /\ exit_code = -1

PxEnsure == <<launcher, parent_exited, polls>>
PxForward == <<stdin_task, stdout_task, connection, conn_exc>>

\* lines 95-96: the daemon is there
EnsureActive ==
    /\ px_pc = "ensure"
    /\ socket_active
    /\ px_pc' = "connect"
    /\ UNCHANGED <<socket_active, stdin_eof, exit_code>>
    /\ UNCHANGED PxEnsure
    /\ UNCHANGED PxForward
    /\ PxFrame

\* lines 98-156: the daemon is started
StartDaemon ==
    /\ px_pc = "ensure"
    /\ ~socket_active
    /\ launcher' = "running"
    /\ parent_exited' = FALSE
    /\ polls' = 0
    /\ px_pc' = "waiting"
    /\ UNCHANGED <<socket_active, stdin_eof, exit_code>>
    /\ UNCHANGED PxForward
    /\ PxFrame

\* lines 157-159: the socket has become active
PollActive ==
    /\ px_pc = "waiting"
    /\ polls < MaxPolls
    /\ socket_active
    /\ px_pc' = "connect"
    /\ UNCHANGED <<socket_active, stdin_eof, exit_code>>
    /\ UNCHANGED PxEnsure
    /\ UNCHANGED PxForward
    /\ PxFrame

\* lines 162-180: the launcher exited with an error, RuntimeError reaches
\* run's `except Exception`, sys.exit(1)
PollLauncherFailed ==
    /\ px_pc = "waiting"
    /\ polls < MaxPolls
    /\ ~socket_active
    /\ ~parent_exited
    /\ launcher = "failed"
    /\ px_pc' = "exited"
    /\ exit_code' = 1
    /\ UNCHANGED <<socket_active, stdin_eof>>
    /\ UNCHANGED PxEnsure
    /\ UNCHANGED PxForward
    /\ PxFrame

\* lines 162-186: not active yet, sleep 0.1 s
PollWait ==
    /\ px_pc = "waiting"
    /\ polls < MaxPolls
    /\ ~socket_active
    /\ parent_exited \/ launcher # "failed"
    /\ parent_exited' = (parent_exited \/ launcher = "forked")
    /\ polls' = polls + 1
    /\ UNCHANGED <<px_pc, launcher, socket_active, stdin_eof, exit_code>>
    /\ UNCHANGED PxForward
    /\ PxFrame

\* lines 188-202 and 61-63: the loop ran out, ConnectionRefusedError
PollTimeout ==
    /\ px_pc = "waiting"
    /\ polls = MaxPolls
    /\ launcher' = IF launcher = "running" THEN "terminated" ELSE launcher
    /\ px_pc' = "backoff"
    /\ UNCHANGED <<parent_exited, polls, socket_active, stdin_eof, exit_code>>
    /\ UNCHANGED PxForward
    /\ PxFrame

\* lines 30-41: connected, the two forwarding tasks are created
Connect ==
    /\ px_pc = "connect"
    /\ socket_active
    /\ connection' = "open"
    /\ conn_exc' = "none"
    /\ stdin_task' = "running"
    /\ stdout_task' = "running"
    /\ px_pc' = "forwarding"
    /\ UNCHANGED <<socket_active, stdin_eof, exit_code>>
    /\ UNCHANGED PxEnsure
    /\ PxFrame

\* lines 30 and 61-63: the daemon is gone again, ConnectionRefusedError or
\* FileNotFoundError
ConnectRefused ==
    /\ px_pc = "connect"
    /\ ~socket_active
    /\ px_pc' = "backoff"
    /\ UNCHANGED <<socket_active, stdin_eof, exit_code>>
    /\ UNCHANGED PxEnsure
    /\ UNCHANGED PxForward
    /\ PxFrame

\* line 63: asyncio.sleep(2) is over
BackoffDone ==
    /\ px_pc = "backoff"
    /\ px_pc' = "ensure"
    /\ UNCHANGED <<socket_active, stdin_eof, exit_code>>
    /\ UNCHANGED PxEnsure
    /\ UNCHANGED PxForward
    /\ PxFrame

\* lines 72-79: _forward_stdin reads b"" and closes the writer
StdinTaskEnds ==
    /\ px_pc = "forwarding"
    /\ stdin_task = "running"
    /\ stdin_eof
    /\ stdin_task' = "done"
    /\ connection' = IF connection = "lost" THEN "lost" ELSE "closed"
    /\ UNCHANGED <<px_pc, stdout_task, conn_exc, socket_active, stdin_eof,
                   exit_code>>
    /\ UNCHANGED PxEnsure
    /\ PxFrame

\* lines 75-79: _forward_stdin writes what it read from stdin to a
\* connection the peer has closed: send fails with EPIPE, the connection
\* is lost with BrokenPipeError, drain raises and the task ends with the
\* exception; the reader gets the exception too, which ends
\* _forward_stdout (lines 90-91)
WriteFails ==
    /\ px_pc = "forwarding"
    /\ stdin_task = "running"
    /\ ~stdin_eof
    /\ connection = "peer_closed"
    /\ connection' = "lost"
    /\ conn_exc' = "BrokenPipeError"
    /\ stdin_task' = "failed"
    /\ stdout_task' = "done"
    /\ UNCHANGED <<px_pc, socket_active, stdin_eof, exit_code>>
    /\ UNCHANGED PxEnsure
    /\ PxFrame

\* lines 85-87: _forward_stdout reads b""
StdoutTaskEnds ==
    /\ px_pc = "forwarding"
    /\ stdout_task = "running"
    /\ connection \in {"peer_closed", "closed"}
    /\ stdout_task' = "done"
    /\ UNCHANGED <<px_pc, stdin_task, connection, conn_exc, socket_active,
                   stdin_eof, exit_code>>
    /\ UNCHANGED PxEnsure
    /\ PxFrame

\* `stdin_task in done` (line 55): the task has finished, with or without
\* an exception
StdinTaskInDone == stdin_task \in {"done", "failed"}

\* except (ConnectionRefusedError, ConnectionResetError, FileNotFoundError)
\* (line 61)
Retried(exc) == exc = "ConnectionResetError"

\* lines 43-59: asyncio.wait has returned, the other task is cancelled, the
\* writer closed; stdin was closed, a clean exit
CleanExit ==
    /\ px_pc = "forwarding"
    /\ stdin_task # "running" \/ stdout_task # "running"
    /\ conn_exc = "none"
    /\ StdinTaskInDone
    /\ px_pc' = "exited"
    /\ exit_code' = 0
    /\ stdin_task' = "none"
    /\ stdout_task' = "none"
    /\ connection' = "none"
    /\ UNCHANGED <<conn_exc, socket_active, stdin_eof>>
    /\ UNCHANGED PxEnsure
    /\ PxFrame

\* lines 43-63: the socket broke: wait_closed raises ConnectionResetError
\* (line 52) or line 59 does; retry in 2 seconds
ConnectionLostRetry ==
    /\ px_pc = "forwarding"
    /\ stdin_task # "running" \/ stdout_task # "running"
    /\ IF conn_exc = "none" THEN ~StdinTaskInDone ELSE Retried(conn_exc)
    /\ px_pc' = "backoff"
    /\ stdin_task' = "none"
    /\ stdout_task' = "none"
    /\ connection' = "none"
    /\ conn_exc' = "none"
    /\ UNCHANGED <<socket_active, stdin_eof, exit_code>>
    /\ UNCHANGED PxEnsure
    /\ PxFrame

\* lines 52 and 64-66: wait_closed raises an exception that line 61 does
\* not name, sys.exit(1)
Unrecoverable ==
    /\ px_pc = "forwarding"
    /\ stdin_task # "running" \/ stdout_task # "running"
    /\ conn_exc # "none"
    /\ ~Retried(conn_exc)
    /\ px_pc' = "exited"
    /\ exit_code' = 1
    /\ stdin_task' = "none"
    /\ stdout_task' = "none"
    /\ connection' = "none"
    /\ UNCHANGED <<conn_exc, socket_active, stdin_eof>>
    /\ UNCHANGED PxEnsure
    /\ PxFrame

ProxyStep ==
    \/ EnsureActive
    \/ StartDaemon
    \/ PollActive
    \/ PollLauncherFailed
    \/ PollWait
    \/ PollTimeout
    \/ Connect
    \/ ConnectRefused
    \/ BackoffDone
    \/ StdinTaskEnds
    \/ WriteFails
    \/ StdoutTaskEnds
    \/ CleanExit
    \/ ConnectionLostRetry
    \/ Unrecoverable

\* the client closes the proxy's stdin
StdinCloses ==
    /\ ~stdin_eof
    /\ px_pc # "exited"
    /\ stdin_eof' = TRUE
    /\ UNCHANGED <<px_pc, socket_active, exit_code>>
    /\ UNCHANGED PxEnsure
    /\ UNCHANGED PxForward
    /\ PxFrame

\* __main__.py 49-54 and 25-32: the launched process forks and exits with
\* 0, or exits with an error
LauncherExits(how) ==
    /\ launcher = "running"
    /\ px_pc # "exited"
    /\ launcher' = how
    /\ UNCHANGED <<px_pc, parent_exited, polls, socket_active, stdin_eof,
                   exit_code>>
    /\ UNCHANGED PxForward
    /\ PxFrame

\* daemon.py 55-66: a daemon starts to listen
DaemonListens ==
    /\ ~socket_active
    /\ px_pc # "exited"
    /\ socket_active' = TRUE
    /\ UNCHANGED <<px_pc, stdin_eof, exit_code>>
    /\ UNCHANGED PxEnsure
    /\ UNCHANGED PxForward
    /\ PxFrame

\* the daemon ends; its end of an open connection is closed
DaemonEnds ==
    /\ socket_active
    /\ px_pc # "exited"
    /\ socket_active' = FALSE
    /\ connection' = IF connection = "open" THEN "peer_closed" ELSE connection
    /\ UNCHANGED <<px_pc, stdin_task, stdout_task, conn_exc, stdin_eof,
                   exit_code>>
    /\ UNCHANGED PxEnsure
    /\ PxFrame

\* the daemon closes its end of the connection (session.py 36-42)
PeerCloses ==
    /\ px_pc = "forwarding"
    /\ connection = "open"
    /\ connection' = "peer_closed"
    /\ UNCHANGED <<px_pc, stdin_task, stdout_task, conn_exc, socket_active,
                   stdin_eof, exit_code>>
    /\ UNCHANGED PxEnsure
    /\ PxFrame

\* the connection is reset: the read of _forward_stdout raises (lines
\* 90-91), a drain of _forward_stdin in progress raises too
ConnectionReset(draining) ==
    /\ px_pc = "forwarding"
    /\ connection \in {"open", "peer_closed"}
    /\ stdout_task = "running"
    /\ connection' = "lost"
    /\ conn_exc' = "ConnectionResetError"
    /\ stdout_task' = "done"
    /\ stdin_task' = IF draining /\ stdin_task = "running" THEN "failed"
                     ELSE stdin_task
    /\ UNCHANGED <<px_pc, socket_active, stdin_eof, exit_code>>
    /\ UNCHANGED PxEnsure
    /\ PxFrame

PxNext ==
    \/ EnsureActive
    \/ StartDaemon
    \/ PollActive
    \/ PollLauncherFailed
    \/ PollWait
    \/ PollTimeout
    \/ Connect
    \/ ConnectRefused
    \/ BackoffDone
    \/ StdinTaskEnds
    \/ WriteFails
    \/ StdoutTaskEnds
    \/ CleanExit
    \/ ConnectionLostRetry
    \/ Unrecoverable
    \/ StdinCloses
    \/ \E how \in {"forked", "failed"} : LauncherExits(how)
    \/ DaemonListens
    \/ DaemonEnds
    \/ PeerCloses
    \/ \E draining \in BOOLEAN : ConnectionReset(draining)

(***************************************************************************)
(* The monolithic server's loop.                                           *)
(*                                                                         *)
(* A line of stdin is a request that opens a document, a request whose     *)
(* handling raises, a line that is not JSON, or an empty line.             *)
(***************************************************************************)
Docs == 1..NumDocs
Lines == [kind : {"request"}, doc : Docs]
            \cup {[kind |-> k, doc |-> 0] : k \in {"raises", "garbage", "blank"}}

\* after lsp_client.start() (server.py 53), at the top of _message_loop
SvInit ==
    /\ sv_pc = "loop"
    /\ sv_pipe = <<>>
    /\ sv_stdin_closed = FALSE
    /\ sv_stdout_ok = TRUE
    /\ open_documents = {}
    /\ lsp_started = TRUE
    /\ eof_reads = 0

\* _read_message (lines 621-648): the message, or None
ReadMessage(line) ==
    IF line.kind \in {"request", "raises"} THEN line ELSE [kind |-> "None", doc |-> 0]

\* lines 131-135: readline returned a line that is no message, continue
ReadNothing ==
    /\ sv_pc = "loop"
    /\ sv_pipe # <<>>
    /\ ReadMessage(Head(sv_pipe)).kind = "None"
    /\ sv_pipe' = Tail(sv_pipe)
    /\ UNCHANGED <<sv_pc, sv_stdin_closed, sv_stdout_ok, open_documents,
                   lsp_started, eof_reads>>
    /\ SvFrame

\* lines 131-135 and 627-631: readline returned "" at end of input,
\* _read_message returns None, continue
ReadAtEof ==
    /\ sv_pc = "loop"
    /\ sv_pipe = <<>>
    /\ sv_stdin_closed
    /\ eof_reads' = Min(eof_reads + 1, MaxEofReads)
    /\ UNCHANGED <<sv_pc, sv_pipe, sv_stdin_closed, sv_stdout_ok,
                   open_documents, lsp_started>>
    /\ SvFrame

\* lines 131-139: a message is handled and answered; lines 143-160: an
\* exception is answered with -32603, and the loop ends when that cannot
\* be sent
HandleLine ==
    /\ sv_pc = "loop"
    /\ sv_pipe # <<>>
    /\ ReadMessage(Head(sv_pipe)).kind # "None"
    /\ sv_pipe' = Tail(sv_pipe)
    /\ open_documents' =
          IF Head(sv_pipe).kind = "request"
            THEN open_documents \cup {Head(sv_pipe).doc}
            ELSE open_documents
    /\ sv_pc' = IF sv_stdout_ok THEN "loop" ELSE "shutdown"
    /\ UNCHANGED <<sv_stdin_closed, sv_stdout_ok, lsp_started, eof_reads>>
    /\ SvFrame

\* lines 76-77: KeyboardInterrupt or cancellation leaves the loop
Interrupted ==
    /\ sv_pc = "loop"
    /\ sv_pc' = "shutdown"
    /\ UNCHANGED <<sv_pipe, sv_stdin_closed, sv_stdout_ok, open_documents,
                   lsp_started, eof_reads>>
    /\ SvFrame

\* lines 70-84: shutdown
ServerShutdown ==
    /\ sv_pc = "shutdown"
    /\ open_documents' = {}
    /\ lsp_started' = FALSE
    /\ sv_pc' = "stopped"
    /\ UNCHANGED <<sv_pipe, sv_stdin_closed, sv_stdout_ok, eof_reads>>
    /\ SvFrame

\* what the server does by itself
ServerStep ==
    \/ ReadNothing
    \/ ReadAtEof
    \/ HandleLine
    \/ ServerShutdown

\* the client writes a line
ClientWrites(line) ==
    /\ ~sv_stdin_closed
    /\ Len(sv_pipe) < MaxLines
    /\ sv_pipe' = Append(sv_pipe, line)
    /\ UNCHANGED <<sv_pc, sv_stdin_closed, sv_stdout_ok, open_documents,
                   lsp_started, eof_reads>>
    /\ SvFrame

\* the client closes the server's stdin
ClientCloses ==
    /\ ~sv_stdin_closed
    /\ sv_stdin_closed' = TRUE
    /\ UNCHANGED <<sv_pc, sv_pipe, sv_stdout_ok, open_documents, lsp_started,
                   eof_reads>>
    /\ SvFrame

\* the client closes the server's stdout
StdoutBreaks ==
    /\ sv_stdout_ok
    /\ sv_stdout_ok' = FALSE
    /\ UNCHANGED <<sv_pc, sv_pipe, sv_stdin_closed, open_documents,
                   lsp_started, eof_reads>>
    /\ SvFrame

SvNext ==
    \/ ReadNothing
    \/ ReadAtEof
    \/ HandleLine
    \/ Interrupted
    \/ ServerShutdown
    \/ \E line \in Lines : ClientWrites(line)
    \/ ClientCloses
    \/ StdoutBreaks

(***************************************************************************)
(* Shutdown of the daemon.                                                 *)
(*                                                                         *)
(* The signal handler (daemon.py 50-53) creates one task per signal; each  *)
(* task runs shutdown() and is suspended where shutdown() awaits.          *)
(***************************************************************************)
Signals == 1..NumSignals

\* after ClangarooDaemon.start has begun to listen (line 59)
DmInit ==
    /\ sd_pc = [t \in Signals |-> "none"]
    /\ daemon_shutdown_event = FALSE
    /\ daemon_server = "listening"
    /\ daemon_sessions = [c \in Conns |-> "none"]
    /\ backend_shutdowns = 0
    /\ socket_file = TRUE
    /\ socket_unlinks = 0

\* `if self._shutdown_event.is_set(): return` (lines 85-86)
AlreadyShutDown == daemon_shutdown_event

\* lines 69-74: a client connects
ClientConnects(c) ==
    /\ daemon_server = "listening"
    /\ daemon_sessions[c] = "none"
    /\ daemon_sessions' = [daemon_sessions EXCEPT ![c] = "open"]
    /\ UNCHANGED <<sd_pc, daemon_shutdown_event, daemon_server,
                   backend_shutdowns, socket_file, socket_unlinks>>
    /\ DmFrame

\* lines 75-81: a session ends and is discarded
SessionEnds(c) ==
    /\ daemon_sessions[c] # "none"
    /\ daemon_sessions' = [daemon_sessions EXCEPT ![c] = "none"]
    /\ UNCHANGED <<sd_pc, daemon_shutdown_event, daemon_server,
                   backend_shutdowns, socket_file, socket_unlinks>>
    /\ DmFrame

\* lines 50-53 and 83-93: a signal arrives, its task starts shutdown(),
\* which returns at once or closes the server and awaits wait_closed
ShutdownTriggered(t) ==
    /\ sd_pc[t] = "none"
    /\ IF AlreadyShutDown
         THEN /\ sd_pc' = [sd_pc EXCEPT ![t] = "done"]
              /\ UNCHANGED daemon_server
         ELSE /\ sd_pc' = [sd_pc EXCEPT ![t] = "wait_closed"]
              /\ daemon_server' = "closed"
    /\ UNCHANGED <<daemon_shutdown_event, daemon_sessions, backend_shutdowns,
                   socket_file, socket_unlinks>>
    /\ DmFrame

\* lines 95-101: the sessions are closed, Backend.shutdown is called and
\* awaited
ServerClosed(t) ==
    /\ sd_pc[t] = "wait_closed"
    /\ sd_pc' = [sd_pc EXCEPT ![t] = "backend"]
    /\ daemon_sessions' = [c \in Conns |->
            IF daemon_sessions[c] = "open" THEN "closed" ELSE daemon_sessions[c]]
    /\ backend_shutdowns' = backend_shutdowns + 1
    /\ UNCHANGED <<daemon_shutdown_event, daemon_server, socket_file,
                   socket_unlinks>>
    /\ DmFrame

\* lines 103-108: the socket file is removed if it is there, the event set
BackendShutDown(t) ==
    /\ sd_pc[t] = "backend"
    /\ sd_pc' = [sd_pc EXCEPT ![t] = "done"]
    /\ socket_file' = FALSE
    /\ socket_unlinks' = IF socket_file THEN socket_unlinks + 1 ELSE socket_unlinks
    /\ daemon_shutdown_event' = TRUE
    /\ UNCHANGED <<daemon_server, daemon_sessions, backend_shutdowns>>
    /\ DmFrame

DmNext ==
    \/ \E c \in Conns : ClientConnects(c)
    \/ \E c \in Conns : SessionEnds(c)
    \/ \E t \in Signals : ShutdownTriggered(t)
    \/ \E t \in Signals : ServerClosed(t)
    \/ \E t \in Signals : BackendShutDown(t)

(***************************************************************************)
(* The response cache.                                                     *)
(*                                                                         *)
(* A row is its timestamp; the time is counted in seconds and the TTL is   *)
(* scaled down to a few of them.  A database error is an exception raised  *)
(* by a statement of one operation (a locked or full database) that the    *)
(* next statement need not meet again.                                     *)
(***************************************************************************)
CacheKeys == 1..NumCacheKeys
NoRow == -1
NoTable == [k \in CacheKeys |-> NoRow]

\* parts[1] of the key (line 188): keys of one file share the file hash
FileHashOf(k) == k % 2

NoOp == [op |-> "none", key |-> 0, hit |-> FALSE, raised |-> FALSE,
         after_error |-> FALSE, before |-> NoTable, at |-> 0]

\* what an operation records
Op(name, k, hit) ==
    [op |-> name, key |-> k, hit |-> hit, raised |-> FALSE,
     after_error |-> cache_error_seen, before |-> cache_table,
     at |-> cache_now]

CaInit ==
    /\ cache_conn = "uninit"
    /\ cache_table = NoTable
    /\ cache_now = 0
    /\ cache_error_seen = FALSE
    /\ cache_last = NoOp

\* initialize (lines 31-77): connected, or disabled on an error
CacheInitialize(ok) ==
    /\ cache_conn = "uninit"
    /\ cache_conn' = IF ok THEN "open" ELSE "none"
    /\ UNCHANGED <<cache_table, cache_now, cache_error_seen, cache_last>>
    /\ CaFrame

\* `timestamp > cutoff_time` with cutoff_time = int(time.time()) - self.ttl
\* (lines 158-162)
Unexpired(timestamp, now) == timestamp > now - ttl

\* `timestamp < cutoff_time` (lines 289-293)
CleanedUp(timestamp, now) == timestamp < now - ttl

\* get (lines 145-175)
CacheGet(k) ==
    /\ cache_conn # "uninit"
    /\ cache_last' =
          Op("get", k, /\ cache_conn = "open"
                       /\ cache_table[k] # NoRow
                       /\ Unexpired(cache_table[k], cache_now))
    /\ UNCHANGED <<cache_conn, cache_table, cache_now, cache_error_seen>>
    /\ CaFrame

\* set (lines 177-206)
CacheSet(k) ==
    /\ cache_conn # "uninit"
    /\ cache_table' = IF cache_conn = "open"
                        THEN [cache_table EXCEPT ![k] = cache_now]
                        ELSE cache_table
    /\ cache_last' = Op("set", k, FALSE)
    /\ UNCHANGED <<cache_conn, cache_now, cache_error_seen>>
    /\ CaFrame

\* invalidate_file (lines 208-236) for the file of key k
InvalidateFile(k) ==
    /\ cache_conn # "uninit"
    /\ cache_table' =
          IF cache_conn = "open"
            THEN [j \in CacheKeys |->
                    IF FileHashOf(j) = FileHashOf(k) THEN NoRow
                    ELSE cache_table[j]]
            ELSE cache_table
    /\ cache_last' = Op("invalidate_file", k, FALSE)
    /\ UNCHANGED <<cache_conn, cache_now, cache_error_seen>>
    /\ CaFrame

\* one pass of _periodic_cleanup (lines 281-300)
CleanupPass ==
    /\ cache_conn = "open"
    /\ cache_table' =
          [j \in CacheKeys |->
              IF cache_table[j] # NoRow /\ CleanedUp(cache_table[j], cache_now)
                THEN NoRow ELSE cache_table[j]]
    /\ cache_last' = Op("cleanup", 0, FALSE)
    /\ UNCHANGED <<cache_conn, cache_now, cache_error_seen>>
    /\ CaFrame

\* a statement of get, set, invalidate_file or the cleanup pass raises:
\* the except clauses (lines 171-172, 205-206, 232-236, 309-311) log it
DatabaseError(name, k) ==
    /\ cache_conn = "open"
    /\ cache_error_seen' = TRUE
    /\ cache_last' = Op(name, k, FALSE)
    /\ UNCHANGED <<cache_conn, cache_table, cache_now>>
    /\ CaFrame

\* a second passes
CacheTick ==
    /\ cache_now < MaxTime
    /\ cache_now' = cache_now + 1
    /\ UNCHANGED <<cache_conn, cache_table, cache_error_seen, cache_last>>
    /\ CaFrame

CacheOps == {"get", "set", "invalidate_file", "cleanup"}

CaNext ==
    \/ \E ok \in BOOLEAN : CacheInitialize(ok)
    \/ \E k \in CacheKeys : CacheGet(k)
    \/ \E k \in CacheKeys : CacheSet(k)
    \/ \E k \in CacheKeys : InvalidateFile(k)
    \/ CleanupPass
    \/ \E name \in CacheOps, k \in CacheKeys : DatabaseError(name, k)
    \/ CacheTick

(***************************************************************************)
(* The cache key.                                                          *)
(*                                                                         *)
(* A string is the sequence of its pieces, ":" one of them; a parameter    *)
(* value is its JSON type followed by the pieces str() gives for it.  The  *)
(* file and its state are fixed, so the file hash is one piece.            *)
(***************************************************************************)
KeyMethods == {<<"hover">>, <<"definition">>}
KeyPositions == {<<"int", "1">>, <<"int", "2">>}
Absent == <<>>
KeyNames == <<"a", "b">>

\* the values of the other parameters
KeyValuesOf(name) ==
    IF name = "a"
      THEN {Absent, <<"str", "1">>, <<"str", "1", ":", "b", ":", "1">>}
      ELSE {Absent, <<"str", "1">>, <<"int", "1">>}

KeyParams ==
    [line : KeyPositions, column : KeyPositions,
     a : KeyValuesOf("a"), b : KeyValuesOf("b")]

KeyArgs == [method : KeyMethods, params : KeyParams]

\* str(value) and the f-string conversion (lines 113-114, 120)
Str(value) == Tail(value)

\* _get_file_hash (lines 124-142) of the fixed file
file_hash == <<"hash">>

\* ":".join(parts) (line 122)
RECURSIVE Join(_)
Join(parts) ==
    IF Len(parts) = 0 THEN <<>>
    ELSE IF Len(parts) = 1 THEN parts[1]
    ELSE parts[1] \o <<":">> \o Join(Tail(parts))

\* the parts of the other parameters in sorted order (lines 118-120)
OtherValue(params, name) == IF name = "a" THEN params.a ELSE params.b

RECURSIVE OtherParts(_, _)
OtherParts(params, names) ==
    IF Len(names) = 0 THEN <<>>
    ELSE IF OtherValue(params, Head(names)) = Absent
           THEN OtherParts(params, Tail(names))
    ELSE <<<<Head(names), ":">> \o Str(OtherValue(params, Head(names)))>>
            \o OtherParts(params, Tail(names))

\* make_key (lines 96-122)
make_key(method, params) ==
    Join(<<method, file_hash, Str(params.line), Str(params.column)>>
            \o OtherParts(params, KeyNames))

KyQuiet ==
    /\ key_args = [i \in 1..2 |->
                     [method |-> <<"hover">>,
                      params |-> [line |-> <<"int", "1">>,
                                  column |-> <<"int", "1">>,
                                  a |-> Absent, b |-> Absent]]]
    /\ key_out = [i \in 1..2 |-> <<>>]

KyInit ==
    /\ key_args \in [1..2 -> KeyArgs]
    /\ key_out = [i \in 1..2 |-> <<>>]

\* the i-th call of make_key
KeyCall(i) ==
    /\ key_out[i] = <<>>
    /\ key_out' = [key_out EXCEPT
                     ![i] = make_key(key_args[i].method, key_args[i].params)]
    /\ UNCHANGED key_args
    /\ KyFrame

KyNext == \E i \in 1..2 : KeyCall(i)

(***************************************************************************)
(* Optional AI augmentation.                                               *)
(*                                                                         *)
(* get_hover and get_incoming_calls / get_outgoing_calls build their       *)
(* result from clangd's answer and then hand it to _add_ai_summary or      *)
(* _add_call_analysis.  Every call into the context provider, the AI       *)
(* cache and the LLM provider returns a value, returns nothing or raises.  *)
(***************************************************************************)
AiTools == {"hover", "calls"}
Outcomes == {"value", "nothing", "raise"}

\* the hover result (lines 336-340, None at 304-305) or the call list
AiBases(tool) ==
    IF tool = "hover" THEN {"no_hover", "hover_a", "hover_b"}
    ELSE {"no_calls", "calls_a", "calls_b"}

NoResult == [base |-> "unset", ai |-> "none", error |-> FALSE]

\* the result without augmentation
Plain(base) == [base |-> base, ai |-> "none", error |-> FALSE]

\* `except Exception as e: logger.warning(...)` and the return of the
\* original result (lines 536-540, 670-673)
AiFails_raised(base) == [base |-> base, ai |-> "none", error |-> TRUE]
AiFails(base) == Plain(base)

\* _add_summary_to_result (lines 544-565); result["ai_analysis"] = {...}
\* (lines 596-619, 647-668)
Augmented(base, how) == [base |-> base, ai |-> how, error |-> FALSE]

AiInit ==
    /\ ai_tool = "hover"
    /\ ai_base = "no_hover"
    /\ ai_pc = "idle"
    /\ ai_context = "unset"
    /\ ai_outcomes = <<>>
    /\ ai_result = NoResult

AiReturn(result) ==
    /\ ai_pc' = "done"
    /\ ai_result' = result

\* get_hover (lines 282-347), get_incoming_calls (349-398) and
\* get_outgoing_calls (400-449) up to the augmentation; flag is summarize
\* or analyze, available tells whether the AI objects are configured
StartTool(tool, base, flag, available) ==
    /\ ai_pc \in {"idle", "done"}
    /\ ai_tool' = tool
    /\ ai_base' = base
    /\ ai_context' = "unset"
    /\ ai_outcomes' = <<>>
    /\ IF flag /\ available /\ base \notin {"no_hover", "no_calls"}
         THEN /\ ai_pc' = IF tool = "hover" THEN "context" ELSE "cache_get"
              /\ ai_result' = NoResult
         ELSE AiReturn(Plain(base))
    /\ AiFrame

\* context_provider.get_context: lines 514 (hover) and 622-628 (calls,
\* inside its own try)
GetContext(o) ==
    /\ ai_pc = "context"
    /\ IF o = "raise" /\ ai_tool = "hover"
         THEN /\ AiReturn(AiFails(ai_base))
              /\ UNCHANGED ai_context
         ELSE /\ ai_pc' = IF ai_tool = "hover" THEN "should" ELSE "llm"
              /\ ai_context' = IF o = "value" THEN "value" ELSE "nothing"
              /\ UNCHANGED ai_result
    /\ UNCHANGED <<ai_tool, ai_base>>
    /\ ai_outcomes' = Append(ai_outcomes, o)
    /\ AiFrame

\* llm_provider.should_summarize and _generate_cache_key (lines 516-521)
ShouldSummarize(o) ==
    /\ ai_pc = "should"
    /\ IF o = "raise" THEN AiReturn(AiFails(ai_base))
       ELSE IF o = "nothing" THEN AiReturn(Plain(ai_base))
       ELSE /\ ai_pc' = "cache_get"
            /\ UNCHANGED ai_result
    /\ UNCHANGED <<ai_tool, ai_base, ai_context>>
    /\ ai_outcomes' = Append(ai_outcomes, o)
    /\ AiFrame

\* ai_summary_cache.get_by_key (lines 523-526) and get_call_analysis
\* (lines 590-619)
AiCacheGet(o) ==
    /\ ai_pc = "cache_get"
    /\ IF o = "raise" THEN AiReturn(AiFails(ai_base))
       ELSE IF o = "value" THEN AiReturn(Augmented(ai_base, "cached"))
       ELSE /\ ai_pc' = IF ai_tool = "hover" THEN "llm" ELSE "context"
            /\ UNCHANGED ai_result
    /\ UNCHANGED <<ai_tool, ai_base, ai_context>>
    /\ ai_outcomes' = Append(ai_outcomes, o)
    /\ AiFrame

\* llm_provider.summarize_with_context (lines 528-530) and
\* analyze_call_hierarchy (lines 641-643)
LlmCall(o) ==
    /\ ai_pc = "llm"
    /\ IF o = "raise" THEN AiReturn(AiFails(ai_base))
       ELSE IF o = "nothing" THEN AiReturn(Plain(ai_base))
       ELSE /\ ai_pc' = "cache_store"
            /\ UNCHANGED ai_result
    /\ UNCHANGED <<ai_tool, ai_base, ai_context>>
    /\ ai_outcomes' = Append(ai_outcomes, o)
    /\ AiFrame

\* ai_summary_cache.store_with_key (lines 531-533) and store_call_analysis
\* (lines 644-668), then the augmented result
AiCacheStore(o) ==
    /\ ai_pc = "cache_store"
    /\ IF o = "raise" THEN AiReturn(AiFails(ai_base))
       ELSE AiReturn(Augmented(ai_base, "generated"))
    /\ UNCHANGED <<ai_tool, ai_base, ai_context>>
    /\ ai_outcomes' = Append(ai_outcomes, o)
    /\ AiFrame

AiNext ==
    \/ \E tool \in AiTools, flag \in BOOLEAN, available \in BOOLEAN :
          \E base \in AiBases(tool) : StartTool(tool, base, flag, available)
    \/ \E o \in Outcomes : GetContext(o)
    \/ \E o \in Outcomes : ShouldSummarize(o)
    \/ \E o \in Outcomes : AiCacheGet(o)
    \/ \E o \in Outcomes : LlmCall(o)
    \/ \E o \in Outcomes : AiCacheStore(o)

(***************************************************************************)
(* cpp_search_symbols in a session: _handle_search_symbols runs its search *)
(* under get_or_compute, and when the LSP search yields nothing the search *)
(* falls back to _fallback_symbol_search, which calls _handle_list_files,  *)
(* itself under get_or_compute with the key of the file list.  The nested  *)
(* call runs in the task of the tool call that made it.  cpp_list_files    *)
(* as a tool of its own calls _handle_list_files too.                      *)
(***************************************************************************)
\* f"symbols:{query}:{file_pattern}" (line 590) and f"files:{pattern}"
\* (line 538) for one query and pattern
SymbolsKey == 1
FilesKey == 2

SsInit == parent = [t \in Calls |-> 0]

Active(t) == pc[t] \notin {"idle", "done"}
ChildrenOf(t) == {n \in Calls : parent[n] = t}

\* _fallback_symbol_search, line 651: the file list is asked for
ListFiles(t, n) ==
    /\ SsFrame
    /\ key[t] = SymbolsKey
    /\ pc[t] = "computing"
    /\ ChildrenOf(t) = {}
    /\ pc[n] = "idle"
    /\ IF n = 1 THEN TRUE ELSE pc[n - 1] # "idle"
    /\ parent' = [parent EXCEPT ![n] = t]
    /\ Enter(n, FilesKey)

\* lines 653 on and 637-644: the text search over the files returns
FallbackReturns(t) ==
    /\ \E n \in ChildrenOf(t) : pc[n] = "done" /\ outcome[n][1] = "value"
    /\ ComputeReturn(t)

\* line 651: _handle_list_files raised and nothing in _compute catches it
FallbackRaises(t) ==
    /\ \E n \in ChildrenOf(t) : pc[n] = "done" /\ outcome[n][1] = "error"
    /\ ComputeRaise(t)

\* the call in which the task of tool call t is suspended
PositionOf(t) ==
    IF \E n \in ChildrenOf(t) : Active(n)
      THEN CHOOSE n \in ChildrenOf(t) : Active(n)
      ELSE t

\* session.py lines 357-360 and 376-385: the deadline of tool call t
\* passes and wait_for cancels its task where it is suspended, in t or in
\* its nested call; CancelledError passes the `except Exception` of every
\* get_or_compute on its way, so the futures they installed stay pending
SearchTimeout(t) ==
    LET x == PositionOf(t) IN
    /\ SsFrame
    /\ parent[t] = 0
    /\ Active(t)
    /\ \A u \in Calls : (u < t /\ parent[u] = 0) => pc[u] = "done"
    /\ pc' = [c \in Calls |-> IF c \in {t, x} THEN "done" ELSE pc[c]]
    /\ outcome' = [c \in Calls |->
                     IF c \in {t, x} THEN <<"timeout", c>> ELSE outcome[c]]
    /\ response' = [response EXCEPT ![t] = ResponseOf(<<"timeout", t>>)]
    /\ cache_lock' =
         IF pc[x] = "computing" THEN cache_lock
         ELSE IF cache_lock.holder = x THEN Release(cache_lock)
         ELSE [cache_lock EXCEPT !.waiters = Without(@, x)]
    /\ future' =
         IF pc[x] = "await_future" /\ future[awaiting[x]] = "pending"
           THEN [future EXCEPT ![awaiting[x]] = "cancelled"]
           ELSE future
    /\ UNCHANGED <<key, done_before, awaiting, computation_cache, executions,
                   raised, parent>>

SearchNext ==
    \/ \E t \in Calls, k \in {SymbolsKey, FilesKey} : Call(t, k)
    \/ \E t, n \in Calls : ListFiles(t, n)
    \/ \E t \in Calls : FallbackReturns(t)
    \/ \E t \in Calls : FallbackRaises(t)
    \/ \E n \in Calls : key[n] = FilesKey /\ ComputeReturn(n)
    \/ \E n \in Calls : key[n] = FilesKey /\ ComputeRaise(n)
    \/ \E t \in Calls : Resume1(t)
    \/ \E t \in Calls : Resume2(t)
    \/ \E t \in Calls : FutureResume(t)
    \/ \E t \in Calls : Resume3(t)
    \/ \E t \in Calls : SearchTimeout(t)

(***************************************************************************)
(* Indexing progress.                                                      *)
(*                                                                         *)
(* clangd reports one progress at a time: a begin, reports, an end.  A     *)
(* text is "indexing" when it mentions one of the keywords index, parsing  *)
(* or loading, "other" when it does not, "none" when the key is absent.    *)
(* A begin carries a title, a report and an end carry none; the message    *)
(* is optional in all three.                                               *)
(***************************************************************************)
Texts == {"none", "indexing", "other"}
NoNote == [kind |-> "none", title |-> "none", message |-> "none"]

Notes ==
    [kind : {"begin"}, title : {"indexing", "other"}, message : Texts]
       \cup [kind : {"report", "end"}, title : {"none"}, message : Texts]

\* `any(keyword in title or keyword in message for keyword in [...])`
\* (lines 324-325)
Examined(note) == note.title = "indexing" \/ note.message = "indexing"

IxInit ==
    /\ is_indexing = FALSE
    /\ progress_percentage = 0
    /\ indexing_complete = FALSE
    /\ wait_pc = "idle"
    /\ ix_progress = "none"
    /\ ix_last = NoNote
    /\ ix_ended = FALSE

\* _handle_progress_notification (lines 313-363); pct is the percentage of
\* a report, -1 without one
HandleProgress(note, pct) ==
    /\ IF note.kind = "begin" THEN ix_progress = "none"
                              ELSE ix_progress # "none"
    /\ ix_last' = note
    /\ ix_progress' =
         CASE note.kind = "begin" ->
                 IF note.title = "indexing" THEN "accepted" ELSE "ignored"
           [] note.kind = "report" -> ix_progress
           [] note.kind = "end" -> "none"
    /\ ix_ended' = (ix_ended \/ (/\ note.kind = "end"
                                 /\ ix_progress = "accepted"
                                 /\ note.message = "indexing"
                                 /\ wait_pc = "waiting"))
    /\ IF ~Examined(note)
         THEN UNCHANGED <<is_indexing, progress_percentage, indexing_complete>>
       ELSE IF note.kind = "begin"
         THEN /\ is_indexing' = TRUE
              /\ indexing_complete' = FALSE
              /\ UNCHANGED progress_percentage
       ELSE IF note.kind = "report"
         THEN /\ progress_percentage' =
                    IF is_indexing /\ pct # -1 THEN pct
                    ELSE progress_percentage
              /\ UNCHANGED <<is_indexing, indexing_complete>>
       ELSE IF is_indexing
         THEN /\ is_indexing' = FALSE
              /\ progress_percentage' = 100
              /\ indexing_complete' = TRUE
         ELSE UNCHANGED <<is_indexing, progress_percentage, indexing_complete>>
    /\ UNCHANGED wait_pc
    /\ IxFrame

\* `self.indexing_status = IndexingStatus()` (line 301)
ResetStatus == FALSE

\* wait_for_indexing up to its await (lines 288-306)
WaitForIndexing ==
    /\ wait_pc = "idle"
    /\ is_indexing' = ResetStatus
    /\ progress_percentage' = 0
    /\ indexing_complete' = FALSE
    /\ wait_pc' = "waiting"
    /\ ix_ended' = FALSE
    /\ UNCHANGED <<ix_progress, ix_last>>
    /\ IxFrame

\* lines 306-308: the event is set, wait_for_indexing returns True
WaitReturns ==
    /\ wait_pc = "waiting"
    /\ indexing_complete
    /\ wait_pc' = "true"
    /\ UNCHANGED <<is_indexing, progress_percentage, indexing_complete,
                   ix_progress, ix_last, ix_ended>>
    /\ IxFrame

\* lines 309-311: the timeout passes first, wait_for_indexing returns False
WaitTimesOut ==
    /\ wait_pc = "waiting"
    /\ ~indexing_complete
    /\ wait_pc' = "false"
    /\ UNCHANGED <<is_indexing, progress_percentage, indexing_complete,
                   ix_progress, ix_last, ix_ended>>
    /\ IxFrame

IxNext ==
    \/ \E note \in Notes, pct \in {-1, 50} : HandleProgress(note, pct)
    \/ WaitForIndexing
    \/ WaitReturns
    \/ WaitTimesOut

(***************************************************************************)
(* Stopping the LSP client.                                                *)
(*                                                                         *)
(* clangd runs and answers the shutdown request within its 2 s; it may     *)
(* write notifications at any time.  The reader task sits in its read of   *)
(* at most 1 s and looks at the shutdown event each time it comes back to  *)
(* the head of its loop.                                                   *)
(***************************************************************************)
LsInit ==
    /\ ls_pc = "running"
    /\ ls_initialized = FALSE
    /\ ls_event = FALSE
    /\ ls_reader = "reading"
    /\ ls_pipe = <<>>
    /\ ls_handling = <<>>
    /\ ls_future = "none"
    /\ ls_sent = <<>>

\* _initialize (lines 151-203) has completed
LsInitialize ==
    /\ ls_pc = "running"
    /\ ~ls_initialized
    /\ ls_initialized' = TRUE
    /\ UNCHANGED <<ls_pc, ls_event, ls_reader, ls_pipe, ls_handling,
                   ls_future, ls_sent>>
    /\ LsFrame

\* `while not self._shutdown_event.is_set()` (line 441)
ReaderLoopTop(event) == IF event THEN "exited" ELSE "reading"

\* stop() lines 128-133: set the event; if initialized, request("shutdown")
Stop ==
    /\ ls_pc = "running"
    /\ ls_event' = TRUE
    /\ IF ls_initialized
         THEN /\ ls_sent' = Append(ls_sent, "shutdown")
              /\ ls_future' = "pending"
              /\ ls_pc' = "await_shutdown"
         ELSE /\ ls_pc' = "cancel_reader"
              /\ UNCHANGED <<ls_sent, ls_future>>
    /\ UNCHANGED <<ls_initialized, ls_reader, ls_pipe, ls_handling>>
    /\ LsFrame

\* clangd writes a notification
ClangdNotifies ==
    /\ "terminate" \notin Range(ls_sent)
    /\ Len(ls_pipe) < MaxPipe
    /\ ls_pipe' = Append(ls_pipe, "note")
    /\ UNCHANGED <<ls_pc, ls_initialized, ls_event, ls_reader, ls_handling,
                   ls_future, ls_sent>>
    /\ LsFrame

Answered ==
    \/ "response" \in Range(ls_pipe) \cup Range(ls_handling)
    \/ ls_future = "resolved"

\* clangd answers the shutdown request
ClangdAnswers ==
    /\ "shutdown" \in Range(ls_sent)
    /\ "terminate" \notin Range(ls_sent)
    /\ ~Answered
    /\ ls_pipe' = Append(ls_pipe, "response")
    /\ UNCHANGED <<ls_pc, ls_initialized, ls_event, ls_reader, ls_handling,
                   ls_future, ls_sent>>
    /\ LsFrame

\* _read_messages lines 446-500: the read returns what is there, every
\* message becomes a _handle_message task, and the loop goes to its head
ReaderReads ==
    /\ ls_reader = "reading"
    /\ ls_pipe # <<>>
    /\ Len(ls_handling) + Len(ls_pipe) <= MaxPipe
    /\ ls_pipe' = <<>>
    /\ ls_handling' = ls_handling \o ls_pipe
    /\ ls_reader' = ReaderLoopTop(ls_event)
    /\ UNCHANGED <<ls_pc, ls_initialized, ls_event, ls_future, ls_sent>>
    /\ LsFrame

\* lines 446-456: the read of 1 s times out with nothing read, `continue`
ReaderPollExpires ==
    /\ ls_reader = "reading"
    /\ ls_pipe = <<>>
    /\ ls_event
    /\ ls_reader' = ReaderLoopTop(ls_event)
    /\ UNCHANGED <<ls_pc, ls_initialized, ls_event, ls_pipe, ls_handling,
                   ls_future, ls_sent>>
    /\ LsFrame

\* the oldest _handle_message task runs; for a response, _handle_response
\* (lines 522-543) gives the future of the request its result
HandleMessage ==
    /\ ls_handling # <<>>
    /\ ls_handling' = Tail(ls_handling)
    /\ ls_future' = IF Head(ls_handling) = "response" /\ ls_future = "pending"
                     THEN "resolved"
                     ELSE ls_future
    /\ UNCHANGED <<ls_pc, ls_initialized, ls_event, ls_reader, ls_pipe,
                   ls_sent>>
    /\ LsFrame

\* stop() line 134: the request returned, notify("exit")
SendExit ==
    /\ ls_pc = "await_shutdown"
    /\ ls_future = "resolved"
    /\ ls_sent' = Append(ls_sent, "exit")
    /\ ls_pc' = "cancel_reader"
    /\ UNCHANGED <<ls_initialized, ls_event, ls_reader, ls_pipe, ls_handling,
                   ls_future>>
    /\ LsFrame

\* request lines 249-256 and stop() lines 135-136: the 2 s pass with the
\* answer lying unread in the pipe of a reader that has left its loop;
\* TimeoutError is logged by stop() and the exit notification is skipped
ShutdownTimesOut ==
    /\ ls_pc = "await_shutdown"
    /\ ls_future = "pending"
    /\ "response" \in Range(ls_pipe)
    /\ ls_reader = "exited"
    /\ ls_future' = "timed_out"
    /\ ls_pc' = "cancel_reader"
    /\ UNCHANGED <<ls_initialized, ls_event, ls_reader, ls_pipe, ls_handling,
                   ls_sent>>
    /\ LsFrame

\* stop() lines 139-144: cancel the reader task and await it
CancelReader ==
    /\ ls_pc = "cancel_reader"
    /\ ls_reader' = IF ls_reader = "reading" THEN "cancelled" ELSE ls_reader
    /\ ls_pc' = "manager_stop"
    /\ UNCHANGED <<ls_initialized, ls_event, ls_pipe, ls_handling, ls_future,
                   ls_sent>>
    /\ LsFrame

\* stop() line 147: clangd_manager.stop() terminates clangd
StopManager ==
    /\ ls_pc = "manager_stop"
    /\ ls_sent' = Append(ls_sent, "terminate")
    /\ ls_pc' = "stopped"
    /\ UNCHANGED <<ls_initialized, ls_event, ls_reader, ls_pipe, ls_handling,
                   ls_future>>
    /\ LsFrame

LsNext ==
    \/ LsInitialize
    \/ Stop
    \/ ClangdNotifies
    \/ ClangdAnswers
    \/ ReaderReads
    \/ ReaderPollExpires
    \/ HandleMessage
    \/ SendExit
    \/ ShutdownTimesOut
    \/ CancelReader
    \/ StopManager

(***************************************************************************)
(* Documents opened in clangd.                                             *)
(*                                                                         *)
(* Backend.start and the monolithic server make one LSPMethods, and with   *)
(* it one DocumentManager, for their lifetime; index warm-up and the       *)
(* monolithic tools use it.  A daemon session makes a new LSPMethods, and  *)
(* with it a new DocumentManager whose open_documents is empty, for every  *)
(* position tool call.                                                     *)
(***************************************************************************)
DoInit ==
    /\ backend_documents = {}
    /\ did_sent = <<>>

\* DocumentManager.__init__ (line 23): self.open_documents = {}
NewDocumentManager(documents) == {}

\* ensure_document_open (lines 25-81) on a manager whose open_documents is
\* `documents`: the notifications it sends
EnsureDocumentOpen(documents, d) ==
    IF d \in documents THEN <<>> ELSE <<[kind |-> "didOpen", doc |-> d]>>

\* a tool of the monolithic server, or index warm-up, on the one manager
SharedToolCall(d) ==
    /\ Len(did_sent) < MaxNotifications
    /\ d \notin backend_documents
    /\ did_sent' = did_sent \o EnsureDocumentOpen(backend_documents, d)
    /\ backend_documents' = backend_documents \cup {d}
    /\ DoFrame

\* session.py lines 479-530: LSPMethods(self.backend.lsp_client) and the
\* tool method, which opens the document on the new manager
SessionToolCall(d) ==
    /\ Len(did_sent) < MaxNotifications
    /\ did_sent' = did_sent
                     \o EnsureDocumentOpen(NewDocumentManager(backend_documents), d)
    /\ UNCHANGED backend_documents
    /\ DoFrame

\* close_document (lines 83-98) on the one manager
CloseDocument(d) ==
    /\ Len(did_sent) < MaxNotifications
    /\ d \in backend_documents
    /\ did_sent' = Append(did_sent, [kind |-> "didClose", doc |-> d])
    /\ backend_documents' = backend_documents \ {d}
    /\ DoFrame

\* the didOpen notifications for d that no didClose has followed
OpenCount(d) ==
    LET last == {i \in 1..Len(did_sent) :
                    did_sent[i] = [kind |-> "didClose", doc |-> d]}
        from == IF last = {} THEN 0 ELSE CHOOSE i \in last : \A j \in last : j <= i
    IN  Cardinality({i \in (from + 1)..Len(did_sent) :
                        did_sent[i] = [kind |-> "didOpen", doc |-> d]})

DoNext ==
    \/ \E d \in Docs : SharedToolCall(d)
    \/ \E d \in Docs : SessionToolCall(d)
    \/ \E d \in Docs : CloseDocument(d)

(***************************************************************************)
(* The request loop of a daemon ClientSession.                             *)
(*                                                                         *)
(* A line is a request that is answered with a result, a request whose     *)
(* handler raises, a shutdown request, a line that is not JSON, or an      *)
(* empty line.                                                             *)
(***************************************************************************)
SessionLines == {"request", "raises", "shutdown", "garbage", "blank"}

SnInit ==
    /\ sn_running = TRUE
    /\ sn_pipe = <<>>
    /\ sn_client_closed = FALSE
    /\ sn_replies = <<>>

\* _read_request (lines 45-60): the request, or None for an empty line and
\* for a JSONDecodeError
ReadRequest(line) == IF line \in {"garbage", "blank"} THEN "None" ELSE line

\* run (lines 32-34): `if not request: break`
LoopAfter(req) == req # "None"

\* _handle_request (lines 72-116): the response
SessionResponse(req) == IF req = "raises" THEN "error" ELSE "result"

\* one pass of the loop of run (lines 29-43) that reads a line: read the
\* request; break on None, else handle it and write the response; close()
\* when the loop has ended
SessionReads ==
    /\ sn_running
    /\ sn_pipe # <<>>
    /\ LET req == ReadRequest(Head(sn_pipe)) IN
       /\ sn_pipe' = Tail(sn_pipe)
       /\ IF req = "None"
            THEN /\ sn_running' = LoopAfter(req)
                 /\ UNCHANGED sn_replies
            ELSE /\ sn_replies' = Append(sn_replies, SessionResponse(req))
                 /\ sn_running' = (req # "shutdown")
    /\ UNCHANGED sn_client_closed
    /\ SnFrame

\* readline returns b"" at the end of the stream: None, break, close()
SessionReadsEof ==
    /\ sn_running
    /\ sn_pipe = <<>>
    /\ sn_client_closed
    /\ sn_running' = FALSE
    /\ UNCHANGED <<sn_pipe, sn_client_closed, sn_replies>>
    /\ SnFrame

\* the client writes a line
SessionClientWrites(line) ==
    /\ ~sn_client_closed
    /\ Len(sn_pipe) < MaxLines
    /\ Len(sn_replies) < MaxReplies
    /\ sn_pipe' = Append(sn_pipe, line)
    /\ UNCHANGED <<sn_running, sn_client_closed, sn_replies>>
    /\ SnFrame

\* the client closes the connection
SessionClientCloses ==
    /\ ~sn_client_closed
    /\ sn_client_closed' = TRUE
    /\ UNCHANGED <<sn_running, sn_pipe, sn_replies>>
    /\ SnFrame

SnNext ==
    \/ SessionReads
    \/ SessionReadsEof
    \/ \E line \in SessionLines : SessionClientWrites(line)
    \/ SessionClientCloses

(***************************************************************************)
(* The readiness of the Backend.                                           *)
(*                                                                         *)
(* A request sent to clangd is recorded with the session it was sent for   *)
(* (0: the Backend itself), its method, and whether the startup event was  *)
(* set when it was sent.                                                   *)
(***************************************************************************)
GtInit ==
    /\ be_pc = "new"
    /\ startup_complete = FALSE
    /\ gt_listening = FALSE
    /\ gt_session = [s \in Sessions |-> "none"]
    /\ gt_sent = <<>>

Sent(by, method) == [by |-> by, method |-> method, ready |-> startup_complete]

\* Backend.start lines 46-51 and _start_clangd lines 105-123: clangd is
\* spawned and LSPClient.start sends initialize
StartClangd ==
    /\ be_pc = "new"
    /\ be_pc' = "clangd"
    /\ gt_sent' = Append(gt_sent, Sent(0, "initialize"))
    /\ UNCHANGED <<startup_complete, gt_listening, gt_session>>
    /\ GtFrame

\* lines 53-87: LSPMethods, cache, AI features, warm-up task
SetUp ==
    /\ be_pc = "clangd"
    /\ be_pc' = "setup"
    /\ UNCHANGED <<startup_complete, gt_listening, gt_session, gt_sent>>
    /\ GtFrame

\* lines 89-91: self._startup_complete.set(), start returns
StartCompletes ==
    /\ be_pc = "setup"
    /\ be_pc' = "started"
    /\ startup_complete' = TRUE
    /\ UNCHANGED <<gt_listening, gt_session, gt_sent>>
    /\ GtFrame

\* lines 92-94: a step of start raises, the exception leaves start
StartFails ==
    /\ be_pc \in {"new", "clangd", "setup"}
    /\ be_pc' = "failed"
    /\ UNCHANGED <<startup_complete, gt_listening, gt_session, gt_sent>>
    /\ GtFrame

\* daemon.py lines 44-59: start_unix_server comes after
\* `await self.backend.start()` has returned
MayListen_early(backend) == backend # "failed"
MayListen(backend) == backend = "started"

Listen ==
    /\ ~gt_listening
    /\ MayListen(be_pc)
    /\ gt_listening' = TRUE
    /\ UNCHANGED <<be_pc, startup_complete, gt_session, gt_sent>>
    /\ GtFrame

\* daemon.py lines 67-72: _handle_client makes a ClientSession
HandleClient(s) ==
    /\ gt_listening
    /\ gt_session[s] = "none"
    /\ gt_session' = [gt_session EXCEPT ![s] = "connected"]
    /\ UNCHANGED <<be_pc, startup_complete, gt_listening, gt_sent>>
    /\ GtFrame

\* session.py lines 479-530: a position tool sends its request through
\* backend.lsp_client, without waiting for the startup event
PositionRequest(s) ==
    /\ gt_session[s] = "connected"
    /\ Len(gt_sent) < MaxGateRequests
    /\ gt_sent' = Append(gt_sent, Sent(s, "position"))
    /\ UNCHANGED <<be_pc, startup_complete, gt_listening, gt_session>>
    /\ GtFrame

\* backend.py lines 164-170: execute_lsp_request waits for the startup
\* event and then sends
ExecuteLspRequest(s) ==
    /\ gt_session[s] = "connected"
    /\ startup_complete
    /\ Len(gt_sent) < MaxGateRequests
    /\ gt_sent' = Append(gt_sent, Sent(s, "workspace/symbol"))
    /\ UNCHANGED <<be_pc, startup_complete, gt_listening, gt_session>>
    /\ GtFrame

\* the client disconnects
Disconnect(s) ==
    /\ gt_session[s] = "connected"
    /\ gt_session' = [gt_session EXCEPT ![s] = "closed"]
    /\ UNCHANGED <<be_pc, startup_complete, gt_listening, gt_sent>>
    /\ GtFrame

GtNext ==
    \/ StartClangd
    \/ SetUp
    \/ StartCompletes
    \/ StartFails
    \/ Listen
    \/ \E s \in Sessions : HandleClient(s)
    \/ \E s \in Sessions : PositionRequest(s)
    \/ \E s \in Sessions : ExecuteLspRequest(s)
    \/ \E s \in Sessions : Disconnect(s)

Init == SfInit /\ ClInit /\ McpQuiet /\ BootInit /\ LspInit /\ FrQuiet /\ TrInit /\ PxInit /\ SvInit /\ DmInit /\ CaInit /\ KyQuiet /\ AiInit /\ SsInit /\ IxInit /\ LsInit /\ DoInit /\ SnInit /\ GtInit

InitMcp == SfInit /\ ClInit /\ McpInit /\ BootInit /\ LspInit /\ FrQuiet /\ TrInit /\ PxInit /\ SvInit /\ DmInit /\ CaInit /\ KyQuiet /\ AiInit /\ SsInit /\ IxInit /\ LsInit /\ DoInit /\ SnInit /\ GtInit

InitGate == SfInit /\ ClInit /\ GateInit /\ BootInit /\ LspInit /\ FrQuiet /\ TrInit /\ PxInit /\ SvInit /\ DmInit /\ CaInit /\ KyQuiet /\ AiInit /\ SsInit /\ IxInit /\ LsInit /\ DoInit /\ SnInit /\ GtInit

InitFraming == SfInit /\ ClInit /\ McpQuiet /\ BootInit /\ LspInit /\ FrInit /\ TrInit /\ PxInit /\ SvInit /\ DmInit /\ CaInit /\ KyQuiet /\ AiInit /\ SsInit /\ IxInit /\ LsInit /\ DoInit /\ SnInit /\ GtInit

InitBadFrame == SfInit /\ ClInit /\ McpQuiet /\ BootInit /\ LspInit /\ BadFrameInit /\ TrInit /\ PxInit /\ SvInit /\ DmInit /\ CaInit /\ KyQuiet /\ AiInit /\ SsInit /\ IxInit /\ LsInit /\ DoInit /\ SnInit /\ GtInit

SpecSingleFlight == Init /\ [][SfNext]_vars

SpecSession == Init /\ [][SessionNext]_vars

SpecMcp == InitMcp /\ [][McpNext]_vars

SpecGate == InitGate /\ [][GateNext]_vars

SpecLsp == Init /\ [][LspNext]_vars
SpecLspCancel == Init /\ [][LspCancelNext]_vars

SpecFraming == InitFraming /\ [][FrNext]_vars

SpecBadFrame == InitBadFrame /\ [][FrNext]_vars

SpecTraversal == Init /\ [][TrNext]_vars

SpecProxy == Init /\ [][PxNext]_vars

\* the event loop runs the proxy's coroutines on
FairSpecProxy == SpecProxy /\ WF_vars(ProxyStep)

SpecServer == Init /\ [][SvNext]_vars

\* the event loop runs the server's coroutine on
FairSpecServer == SpecServer /\ WF_vars(ServerStep)

SpecDaemonShutdown == Init /\ [][DmNext]_vars

SpecCache == Init /\ [][CaNext]_vars

InitKey == SfInit /\ ClInit /\ McpQuiet /\ BootInit /\ LspInit /\ FrQuiet /\ TrInit /\ PxInit /\ SvInit /\ DmInit /\ CaInit /\ KyInit /\ AiInit /\ SsInit /\ IxInit /\ LsInit /\ DoInit /\ SnInit /\ GtInit

SpecKey == InitKey /\ [][KyNext]_vars

SpecAi == Init /\ [][AiNext]_vars

SpecSearch == Init /\ [][SearchNext]_vars

SpecIndexing == Init /\ [][IxNext]_vars

SpecStop == Init /\ [][LsNext]_vars

SpecDocuments == Init /\ [][DoNext]_vars

SpecSessionLoop == Init /\ [][SnNext]_vars

SpecReadiness == Init /\ [][GtNext]_vars

SpecClangd == Init /\ [][ClNext]_vars

SpecBootstrap == Init /\ [][BootNext]_vars

\* the event loop runs every task that can run: the manager's own steps
\* are taken when they stay possible; deaths of clangd, shutdown and tool
\* calls are up to the environment
FairSpecClangd == SpecClangd /\ WF_vars(MgrStep)

(***************************************************************************)
(* Claims about Backend.get_or_compute                                     *)
(***************************************************************************)
Returned(k) == {t \in Calls : pc[t] = "done" /\ key[t] = k}

\* C1: for calls with one key that overlap in time, compute_func is executed
\* once and every caller returns that execution's result.  At no time do two
\* executions for one key run; and as long as no execution for the key has
\* raised (that case is C2's), the key has had at most one execution, every
\* call that has returned has returned a value, and that value is the one of
\* the execution whose future the table holds.
C1_SingleExecution ==
    \A k \in Keys :
        /\ Cardinality({t \in Calls : pc[t] = "computing" /\ key[t] = k}) <= 1
        /\ raised[k] = 0 =>
             /\ executions[k] <= 1
             /\ \A t \in Returned(k) :
                  outcome[t] = <<"value", computation_cache[k]>>

\* three calls with one key, the later two made while the first was still
\* running, have all returned the first one's result
C1_Witness ==
    \E k \in Keys : \E o \in Returned(k) :
        /\ raised[k] = 0
        /\ Cardinality({t \in Returned(k) :
               t # o /\ o \notin done_before[t] /\ outcome[t] = <<"value", o>>}) >= 2

\* C2: when the execution raises, every caller that awaited its future gets
\* that same error; once the failing call has returned its entry is gone from
\* the table; and a call made after that never gets the failure from the
\* table: it ends with the outcome of an execution of its own or of a later
\* one.
C2_ErrorIsSharedAndEvicted ==
    /\ \A t \in Calls :
         (pc[t] = "done" /\ awaiting[t] # 0 /\ future[awaiting[t]] = "exception")
             => outcome[t] = <<"error", awaiting[t]>>
    /\ \A o \in Calls :
         (pc[o] = "done" /\ future[o] = "exception")
             => \A k \in Keys : computation_cache[k] # o
    /\ \A t \in Calls : \A o \in done_before[t] :
         (pc[t] = "done" /\ future[o] = "exception") => outcome[t][2] # o

\* an execution raised, a waiter got its error, and a call made after the
\* failing call returned has run compute_func itself
C2_Witness ==
    \E o \in Calls : \E t \in Calls : \E u \in Calls :
        /\ future[o] = "exception" /\ pc[o] = "done"
        /\ t # o /\ outcome[t] = <<"error", o>>
        /\ o \in done_before[u] /\ key[u] = key[o]
        /\ future[u] \in {"result", "exception"}

\* C7: every tools/call request with an id on an initialized connection
\* yields exactly one response, a result or an error object.
C7_EveryToolCallAnswered ==
    \A t \in Calls : pc[t] = "done" => response[t] \in {"result", "error"}

(***************************************************************************)
(* Claims about the LSP writes and the clangd manager                      *)
(***************************************************************************)
InFlight == {s \in Sessions : spc[s] \in {"open_drain", "req_drain", "locked_drain"}}

\* C3: in daemon mode at most one write to clangd's stdin is in flight at
\* any time (and so every message a session's tool call sends is sent by the
\* holder of the Backend's write lock).
C3_AtMostOneWriteInFlight == Cardinality(InFlight) <= 1

C6_RestartCompletes ==
    \A m \in Monitors : \A n \in 0..(max_restarts - 1) :
        (/\ mpc[m] = "want_restart"
         /\ process.state = "dead"
         /\ process.restart_count = n
         /\ ~shutdown_event)
            ~> (\/ process.state = "alive" /\ process.restart_count = n + 1
                \/ shutdown_event)

(***************************************************************************)
(* Claims about MCP request handling                                       *)
(***************************************************************************)
\* what the specification calls invalid position arguments: file missing or
\* not a string, line or column missing or not a positive integer, a file
\* that does not exist or lies outside the project root
InvalidPositionArgs(r) ==
    \/ r.file.t # "str"
    \/ ~(r.line.t = "int" /\ r.line.n >= 1)
    \/ ~(r.column.t = "int" /\ r.column.n >= 1)
    \/ ValidatedFile(r.file.s) \notin files
    \/ ValidatedFile(r.file.s).dir # "proj"

PositionCallHandled ==
    /\ request.method = "tools/call"
    /\ request.params = "object"
    /\ request.tool \in PositionTools
    /\ initialized[conn]

\* C8: a position tool called with invalid position arguments is answered
\* with error -32602 and no LSP message is sent for the call.
C8_InvalidArgumentsRejected ==
    (PositionCallHandled /\ InvalidPositionArgs(request))
        => (reply = Error(-32602, request.id) /\ lsp_sent = {})

\* C9: when a position tool is called with a project-relative file that
\* passes validation, every LSP request of the call is for the validated
\* file, the path resolved against the project root, in server and session
\* and whatever the working directory.
C9_RequestForValidatedFile ==
    (/\ PositionCallHandled
     /\ request.file.t = "str"
     /\ ~IsAbsolute(request.file.s)
     /\ ~PositionArgsRejected(request))
        => \A m \in lsp_sent : m.file = ValidatedFile(request.file.s)

\* C10: a request whose method is not in the dispatch table gets exactly
\* one response when it carries an id, whatever the id's value: the error
\* -32601 with that id; without an id it gets none.
C10_UnknownMethod ==
    (request.method # "" /\ request.method \notin KnownMethods(mode))
        => reply = (IF request.id = JAbsent THEN NoReply
                    ELSE Error(-32601, request.id))

(***************************************************************************)
(* Claims about the daemon bootstrap                                       *)
(***************************************************************************)
\* C4: for concurrent startup attempts for one project, at most one daemon
\* starts a Backend or binds the socket: at no time do two children of
\* startup attempts run a Backend.
C4_AtMostOneDaemon ==
    Cardinality({a \in Attempts : cpc[a] \in {"backend_starting", "listening"}}) <= 1

(***************************************************************************)
(* Claims about the initialization gate                                    *)
(***************************************************************************)
\* C11: on each connection a tools/call request (a well-formed one: its
\* params are an object) is answered with error -32002, with neither
\* validation nor a tool run, if and only if no initialize request has been
\* handled earlier on that same connection; an initialize on another
\* connection does not count.
C11_InitializationGate ==
    (conn # 0 /\ request.method = "tools/call" /\ request.params = "object")
        => ((reply = Error(-32002, request.id) /\ stage = "none")
                <=> ~init_handled[conn])

\* a session has refused a tools/call with -32002 after another session
\* was initialized
C11_Witness ==
    /\ conn # 0
    /\ request.method = "tools/call"
    /\ reply = Error(-32002, request.id)
    /\ stage = "none"
    /\ \E d \in Conns : d # conn /\ init_handled[d]

(***************************************************************************)
(* Claims about LSPClient requests                                         *)
(***************************************************************************)
\* C12: request ids are unique and strictly increasing in send order, and
\* every caller that got a response's result or error got it from the
\* response that carries the id of its own request, whatever the order in
\* which the responses arrive.
C12_ResponsesMatchedById ==
    /\ \A i \in 1..Len(sent_ids) : \A j \in 1..Len(sent_ids) :
         i < j => sent_ids[i] < sent_ids[j]
    /\ \A k \in Callers :
         (caller_pc[k] = "done" /\ caller_result[k][1] \in {"result", "error"})
             => caller_result[k][2] = caller_id[k]

\* two requests were pending together, the later one's response arrived
\* and was handled first, and its caller has that response
C12_Witness ==
    \E k \in Callers : \E e \in pending_requests :
        /\ caller_pc[k] = "done"
        /\ caller_result[k] = <<"result", caller_id[k]>>
        /\ e.id < caller_id[k]

\* C13: when a request times out its entry leaves pending_requests and its
\* caller gets the timeout error; the entries of the other waiting callers
\* stay (the table holds exactly the requests of the callers that wait), and
\* a response that arrives later for the timed-out id is dropped without
\* resolving any request.
C13_TimeoutFrame ==
    /\ pending_requests = {[id |-> caller_id[k], caller |-> k] :
                              k \in {c \in Callers : caller_pc[c] = "waiting"}}
    /\ \A k \in Callers :
         (caller_pc[k] = "done" /\ caller_result[k][1] # "timeout")
             => caller_result[k][2] = caller_id[k]
    /\ \A id \in ignored : \A e \in pending_requests : e.id # id

\* a request timed out while another was pending; the late response for
\* the timed-out id was dropped, and the other request then got its own
\* response
C13_Witness ==
    \E k \in Callers : \E o \in Callers :
        /\ caller_pc[k] = "done"
        /\ caller_result[k] = <<"timeout", caller_id[k]>>
        /\ caller_id[k] \in ignored
        /\ caller_pc[o] = "done"
        /\ caller_id[o] < caller_id[k]
        /\ caller_result[o] = <<"result", caller_id[o]>>

(***************************************************************************)
(* Claims about the LSP framing                                            *)
(***************************************************************************)
IsPrefix(p, q) == Len(p) <= Len(q) /\ SubSeq(q, 1, Len(p)) = p

\* C14: for every sequence of messages encoded with the Content-Length
\* framing and every way of splitting the bytes into reads, the read loop
\* dispatches the same messages in the same order, each once: what has
\* been dispatched is always a prefix of what was encoded, and all of it
\* once the last byte has been read.
C14_FramingRoundTrip ==
    /\ IsPrefix(dispatched, messages)
    /\ stream = <<>> => (dispatched = messages /\ buffer = <<>>)

\* two messages were read in chunks that ended inside a header and inside
\* a body, and both have been dispatched
C14_Witness ==
    /\ stream = <<>>
    /\ Len(messages) = 2
    /\ dispatched = messages
    /\ split_in_header
    /\ split_in_body

(***************************************************************************)
(* Claims about the recursive call hierarchy                               *)
(***************************************************************************)
\* C15: for every call graph, cyclic and over the limits included, the
\* returned list has at most max_total_calls records and every record has
\* a depth from 1 to max_depth.
C15_BoundedResult ==
    tr_pc = "done" =>
        /\ Len(tr_result) <= max_total_calls
        /\ \A i \in 1..Len(tr_result) :
              1 <= tr_result[i].depth /\ tr_result[i].depth <= max_depth

\* a traversal over a cycle that stopped at the global limit with a record
\* at the deepest level
C15_Witness ==
    /\ tr_pc = "done"
    /\ skipped
    /\ max_depth > 1
    /\ Len(tr_result) = max_total_calls
    /\ \E i \in 1..Len(tr_result) : tr_result[i].depth = max_depth

\* the steps left in the loop of the current level, above those of all the
\* deeper levels
TraversalMeasure ==
    LET level_size == max_calls_per_level + 3
        deeper == 2 + (max_depth - current_depth) * level_size IN
    CASE tr_pc = "done" -> 0
      [] tr_pc = "sort" -> 1
      [] tr_pc = "item" -> deeper + (max_calls_per_level + 1 - item_index)
      [] tr_pc = "level" -> deeper + max_calls_per_level + 1
      [] tr_pc = "idle" -> 2 + (MaxDepth + 1) * level_size

\* C16: within one top-level request callHierarchy/incomingCalls (or
\* outgoingCalls) is requested at most once for each (uri, start line) key,
\* and the traversal terminates: after every step the requests made so far
\* are for distinct keys, and every step lowers a measure that is a natural
\* number, so a traversal has finitely many steps.
C16_OncePerKeyAndTerminates ==
    [][/\ \A i, j \in 1..Len(hierarchy_requests') :
            hierarchy_requests'[i] = hierarchy_requests'[j] => i = j
       /\ TraversalMeasure' \in Nat
       /\ TraversalMeasure' < TraversalMeasure]_vars

\* a finished traversal that met an item again and requested every key
C16_Witness ==
    /\ tr_pc = "done"
    /\ skipped
    /\ Len(hierarchy_requests) = NumNodes

(***************************************************************************)
(* Claims about the stdio proxy                                            *)
(***************************************************************************)
\* the connection to the daemon is gone and stdin is open
LostWithStdinOpen ==
    /\ px_pc = "forwarding"
    /\ connection \in {"peer_closed", "lost"}
    /\ ~stdin_eof

\* C17: StdioProxy.run exits cleanly only when stdin has reached end of
\* file, and when the connection to the daemon is lost with stdin open,
\* noticed by either forwarding task, its next step is the 2 s backoff that
\* leads to a reconnect.
C17_CleanExitOnlyOnEof ==
    [][/\ exit_code' = 0 => stdin_eof'
       /\ (LostWithStdinOpen /\ ~stdin_eof' /\ px_pc' # "forwarding")
             => px_pc' = "backoff"]_vars

\* C18: if the daemon's socket never becomes active the proxy makes a
\* bounded number of attempts and terminates with a non-zero exit code: the
\* socket becomes active at some time, or the proxy exits with a non-zero
\* code.
C18_BoundedStartAttempts ==
    <>(socket_active \/ (px_pc = "exited" /\ exit_code # 0))

(***************************************************************************)
(* Claims about the monolithic server's loop                               *)
(***************************************************************************)
\* C19: when standard input reaches end of input the message loop ends and
\* shutdown runs: eventually every document is closed and the LSP client
\* is stopped.
C19_EofShutsDown ==
    (sv_stdin_closed /\ sv_pipe = <<>>)
        ~> (sv_pc = "stopped" /\ open_documents = {} /\ ~lsp_started)

(***************************************************************************)
(* Claims about the shutdown of the daemon                                 *)
(***************************************************************************)
\* C20: for any number and timing of shutdown triggers, a second signal
\* while the first shutdown awaits included, Backend.shutdown is invoked at
\* most once and the socket file is removed at most once.
C20_ShutdownRunsOnce ==
    /\ backend_shutdowns <= 1
    /\ socket_unlinks <= 1

(***************************************************************************)
(* Claims about a session's shutdown request                               *)
(***************************************************************************)
\* C21: a shutdown request on one session is acknowledged and ends only
\* that session: its stop flag is cleared, and the state of the Backend
\* (single-flight table and its lock, process manager, LSP client) and the
\* flags of every other session are what they were.
C21_ShutdownEndsOnlyItsSession ==
    [][request'.method = "shutdown" =>
          /\ reply' = Result(request'.id)
          /\ ~is_running'[conn']
          /\ \A d \in Conns \ {conn'} :
                /\ is_running'[d] = is_running[d]
                /\ initialized'[d] = initialized[d]
                /\ init_handled'[d] = init_handled[d]
          /\ sfvars' = sfvars
          /\ clvars' = clvars
          /\ lspvars' = lspvars]_vars

\* a session is served a tool call after another session was shut down
C21_Witness ==
    /\ mode = "session"
    /\ conn # 0
    /\ request.method = "tools/call"
    /\ stage = "executed"
    /\ reply = Result(request.id)
    /\ \E c \in Conns : c # conn /\ ~is_running[c]

(***************************************************************************)
(* Claims about the response cache                                         *)
(***************************************************************************)
\* the row of key k was older than the TTL when the last operation ran
OlderThanTtl(k) == cache_last.at - cache_last.before[k] > ttl

\* C22: an entry whose timestamp is older than the TTL is never returned
\* by get and is deleted by the next cleanup pass; an entry within the TTL
\* is returned by get and is not deleted by cleanup.
C22_TtlExpiry ==
    /\ (cache_last.op = "get" /\ cache_conn = "open" /\ ~cache_error_seen
          /\ cache_last.before[cache_last.key] # NoRow)
         => (cache_last.hit <=> ~OlderThanTtl(cache_last.key))
    /\ (cache_last.op = "cleanup" /\ ~cache_error_seen)
         => \A k \in CacheKeys :
               cache_last.before[k] # NoRow
                  => (cache_table[k] = NoRow <=> OlderThanTtl(k))

\* C24: after a database error inside get, set, invalidate_file or the
\* cleanup pass the cache is disabled: a later get returns none, a later
\* set or invalidate_file touches no row, and no error reaches the caller.
C24_DisabledAfterError ==
    /\ ~cache_last.raised
    /\ cache_last.after_error =>
          /\ ~cache_last.hit
          /\ cache_table = cache_last.before

(***************************************************************************)
(* Claims about the cache key                                              *)
(***************************************************************************)
\* C23: for a fixed file state make_key is deterministic and injective:
\* two calls return the same key exactly when their method, line, column
\* and every other parameter name and value are equal.
C23_KeyInjective ==
    (key_out[1] # <<>> /\ key_out[2] # <<>>)
       => (key_out[1] = key_out[2] <=> key_args[1] = key_args[2])

(***************************************************************************)
(* Claims about the AI augmentation                                        *)
(***************************************************************************)
\* C25: with summarize or analyze set, whatever the context provider, the
\* AI cache and the LLM provider return or raise, the tool returns the
\* base result it returns without augmentation and never an error.
C25_AugmentationOptional ==
    ai_pc = "done" => /\ ai_result.base = Plain(ai_base).base
                      /\ ~ai_result.error

\* an AI object raised after another had answered and the base result
\* came back without augmentation
C25_Witness ==
    /\ ai_pc = "done"
    /\ Len(ai_outcomes) > 1
    /\ ai_outcomes[Len(ai_outcomes)] = "raise"
    /\ ai_result = Plain(ai_base)
    /\ ai_base \in {"hover_a", "calls_b"}

(***************************************************************************)
(* Claims about get_or_compute: nesting, cancellation and the guard lock   *)
(***************************************************************************)
\* C26: of two concurrent cpp_search_symbols calls with one key whose LSP
\* search yields nothing, the nested get_or_compute for the file list made
\* by the call that runs the search is never blocked by the call that
\* waits on the same key.
C26_NestedCallNotBlocked ==
    \A t \in Calls, n \in Calls :
       ~(/\ parent[n] = t
         /\ pc[n] \in {"wait1", "wait2"}
         /\ \E u \in Calls :
               /\ cache_lock.holder = u
               /\ pc[u] = "await_future"
               /\ awaiting[u] = t)

\* C27: after tool-level timeouts have cancelled callers of get_or_compute
\* for a key (the one running the computation, one waiting on it, or
\* both), the table holds no unresolved or cancelled future for that key.
C27_NoStaleFutureAfterCancel ==
    \A k \in Keys :
       LET o == computation_cache[k] IN
       o # 0 => /\ future[o] # "cancelled"
                /\ ~(future[o] = "pending" /\ pc[o] = "done")

\* C28: the guard lock is held only while the table is checked or
\* updated, never across the await of a computation or of an in-flight
\* future, so a call for a key without an entry does not wait for the
\* computation of another key.
C28_LockOnlyAroundTable ==
    \A t \in Calls :
       /\ pc[t] \in {"await_future", "computing"} => cache_lock.holder # t
       /\ (pc[t] = "wait1" /\ computation_cache[key[t]] = 0)
             => ~\E u \in Calls : /\ cache_lock.holder = u
                                  /\ pc[u] = "await_future"
                                  /\ key[u] # key[t]

(***************************************************************************)
(* Claims about stopping clangd and about the start lock                   *)
(***************************************************************************)
\* the manager is stopped: stop() has returned, there is no process handle
\* and no monitor task is left running
ManagerStopped ==
    /\ mpc[Owner] = "stopped"
    /\ process = NoProcess
    /\ \A m \in Monitors : mpc[m] \in {"absent", "exited", "cancelled"}

\* C29: from every reachable state of the manager (running, process dead,
\* in the middle of an automatic restart) a call of stop() eventually
\* returns with the manager stopped.
C29_StopReturns == (mpc[Owner] = "want_stop") ~> ManagerStopped

\* C30: the start lock of the winning attempt stays held from its
\* acquisition until the daemon listens or has failed: while the detached
\* child is starting, its attempt holds the flock on the file that
\* lock_path names, so no other attempt can acquire the lock.
C30_LockHeldUntilListening ==
    \A a \in Attempts :
       cpc[a] \in {"forked", "backend_starting"}
          => /\ flock_owner[fd_inode[a]] = a
             /\ lock_inode = fd_inode[a]

(***************************************************************************)
(* Claims about the LSP client: bad frames, indexing, stop, documents      *)
(***************************************************************************)
\* C31: when the stream holds one frame with a malformed header or an
\* invalid JSON body, exactly that frame is discarded: once the stream has
\* been read, the well-formed messages, those after it included, have all
\* been dispatched, in order.
C31_OnlyBadFrameDiscarded == stream = <<>> => dispatched = messages

\* C32: for a progress accepted at its begin, the end notification, which
\* carries no title and at most a message, marks indexing complete:
\* is_indexing false, percentage 100, waiters signalled.
C32_EndCompletesIndexing ==
    [][(ix_progress = "accepted" /\ ix_last'.kind = "end"
          /\ ix_progress' = "none")
         => (/\ ~is_indexing'
             /\ progress_percentage' = 100
             /\ indexing_complete')]_vars

\* C33: wait_for_indexing returns true whenever indexing ends after the
\* call and before the timeout, also when the begin was handled before the
\* call: it does not return false once an end of the accepted progress has
\* been handled (here an end whose message names the indexing, which the
\* handler examines).
C33_WaitSeesEnd == wait_pc = "false" => ~ix_ended

\* C34: stop() on an initialized client whose clangd answers shutdown in
\* time: the response is received and the exit notification sent before
\* the read loop is cancelled and clangd is terminated.
C34_ExitBeforeTerminate ==
    (ls_initialized /\ ls_pc \in {"cancel_reader", "manager_stop", "stopped"})
       => (ls_future = "resolved" /\ "exit" \in Range(ls_sent))

\* C37: once a computation for a key has succeeded, its resolved future
\* stays in the table and compute_func is not started for the key again;
\* every call made after the owner returned, unless it is cancelled, returns
\* that first result.
C37_SuccessIsKept ==
    /\ [](\A o \in Calls : \A t \in Calls :
            (/\ outcome[o] = <<"value", o>>
             /\ o \in done_before[t]
             /\ key[t] = key[o]
             /\ pc[t] = "done"
             /\ outcome[t][1] # "timeout")
                => outcome[t] = <<"value", o>>)
    /\ [][\A k \in Keys :
            LET o == computation_cache[k] IN
            (o # 0 /\ future[o] = "result")
                => (/\ computation_cache'[k] = o
                    /\ future'[o] = "result"
                    /\ executions'[k] = executions[k])]_vars

\* a call made after the owner of its key had returned its result has
\* returned that result, and compute_func ran once for the key
C37_Witness ==
    \E o \in Calls : \E t \in Calls :
        /\ o # t
        /\ outcome[o] = <<"value", o>>
        /\ o \in done_before[t]
        /\ key[t] = key[o]
        /\ outcome[t] = <<"value", o>>
        /\ executions[key[t]] = 1

\* C36: pending_requests holds no entry for a request whose caller is no
\* longer waiting for it, whether the caller left by a response, an error,
\* the LSP timeout or its own cancellation.
C36_NoEntryWithoutWaiter ==
    \A e \in pending_requests : Awaits(e.caller, e)

\* C35: clangd never receives a second didOpen for a document that is open,
\* that is, without a didClose for it in between.
C35_NoSecondDidOpen == \A d \in Docs : OpenCount(d) <= 1

\* C39: for every call graph, no depth level of the returned list holds
\* more than max_calls_per_level records.
C39_LevelBounded ==
    tr_pc = "done" =>
        \A d \in 1..MaxDepth :
            Cardinality({i \in 1..Len(tr_result) : tr_result[i].depth = d})
                <= max_calls_per_level

\* C38: reading an empty line or a line that is not JSON does not end the
\* session: its loop goes on to the next line.
C38_BadLineSkipped ==
    [][(/\ sn_running
        /\ sn_pipe # <<>>
        /\ Head(sn_pipe) \in {"garbage", "blank"}
        /\ sn_pipe' = Tail(sn_pipe))
           => sn_running']_vars

\* C40: no LSP request sent for a client session is sent before
\* Backend.start has completed and set the startup event.
C40_NoSessionRequestBeforeReady ==
    \A i \in 1..Len(gt_sent) : gt_sent[i].by # 0 => gt_sent[i].ready

\* after the Backend's own initialize, sent before the event was set, a
\* session's position tool, which does not wait for the event, has sent a
\* request
C40_Witness ==
    /\ Len(gt_sent) >= 2
    /\ gt_sent[1] = [by |-> 0, method |-> "initialize", ready |-> FALSE]
    /\ \E i \in 2..Len(gt_sent) :
          gt_sent[i].by # 0 /\ gt_sent[i].method = "position"

====
